---- MODULE Spec2Model ----
(***************************************************************************)
(* Content Guardian: the controller's registry, runModule and runWorkflow  *)
(* (sequential and parallel), the uniform module contract (validate,       *)
(* compose prompt, call the completion Provider, parse the completion)     *)
(* and the workflow summary.                                               *)
(*                                                                         *)
(* Text is a sequence of one-character strings wherever the code inspects  *)
(* characters (completions, content); fixed messages the code only         *)
(* concatenates are kept as whole strings, so a report or a prompt is a    *)
(* sequence of strings either way.                                         *)
(*                                                                         *)
(* An optional value (options?.model, result.recommendedFixes, a promise's *)
(* value) is a sequence of length 0 (undefined) or 1.  Timestamps and the  *)
(* uuid workflow id are left out: no decision of the code reads them.      *)
(***************************************************************************)
EXTENDS Integers, Sequences, FiniteSets, TLC

VARIABLES
  modules,          \* ContentGuardianController.modules: moduleId -> the
                    \* instance stored under it and the key's place in the Map
  registrations,    \* the moduleIds of the instances handed to registerModule
                    \* so far; the n-th call handed over instance n
  op,               \* the top-level call in progress or finished
  input,            \* the ContentInput of that call
  workflowOptions,  \* the WorkflowOptions of a runWorkflow call
  pc,               \* where the top-level call stands
  results,          \* runWorkflow's local `results`
  overallStatus,    \* runWorkflow's local `overallStatus`
  tasks,            \* the runModule/process calls started so far, in start order
  returned          \* what the top-level call returned or threw

vars == << modules, registrations, op, input, workflowOptions, pc,
           results, overallStatus, tasks, returned >>

----------------------------------------------------------------------------
(* Bounds *)

\* longest module list handed to runWorkflow
MaxModules == 2
\* how many of the ten module ids (in registration order) workflows draw from
NumIds == 2
\* how many registerModule calls a behaviour makes
MaxRegistrations == 2
\* how many whitespace characters the Provider puts after a status field
MaxSpaces == 1

----------------------------------------------------------------------------
(* Characters and strings *)

Lower == << "a","b","c","d","e","f","g","h","i","j","k","l","m",
            "n","o","p","q","r","s","t","u","v","w","x","y","z" >>
Upper == << "A","B","C","D","E","F","G","H","I","J","K","L","M",
            "N","O","P","Q","R","S","T","U","V","W","X","Y","Z" >>

\* String.prototype.toUpperCase on one character
UpperChar(c) ==
  IF \E k \in 1..26 : Lower[k] = c
    THEN Upper[CHOOSE k \in 1..26 : Lower[k] = c]
    ELSE c

\* String.prototype.toLowerCase on one character
LowerChar(c) ==
  IF \E k \in 1..26 : Upper[k] = c
    THEN Lower[CHOOSE k \in 1..26 : Upper[k] = c]
    ELSE c

toUpperCase(s) == [k \in 1..Len(s) |-> UpperChar(s[k])]

toLowerCase(s) == [k \in 1..Len(s) |-> LowerChar(s[k])]

\* the characters \s matches and trim() strips
IsSpace(c) == c \in {" ", "\t", "\n", "\r"}

\* String.prototype.trim
trim(s) ==
  IF \A k \in 1..Len(s) : IsSpace(s[k])
    THEN << >>
    ELSE LET a == CHOOSE k \in 1..Len(s) :
                    /\ ~IsSpace(s[k])
                    /\ \A j \in 1..(k-1) : IsSpace(s[j])
             b == CHOOSE k \in 1..Len(s) :
                    /\ ~IsSpace(s[k])
                    /\ \A j \in (k+1)..Len(s) : IsSpace(s[j])
         IN  SubSeq(s, a, b)

\* String.prototype.startsWith (case-sensitive)
startsWith(s, lit) ==
  /\ Len(lit) <= Len(s)
  /\ \A k \in 1..Len(lit) : s[k] = lit[k]

\* String.prototype.split('\n')
RECURSIVE split(_)
split(s) ==
  IF \E k \in 1..Len(s) : s[k] = "\n"
    THEN LET k == CHOOSE j \in 1..Len(s) :
                    /\ s[j] = "\n"
                    /\ \A h \in 1..(j-1) : s[h] # "\n"
         IN  << SubSeq(s, 1, k-1) >> \o split(SubSeq(s, k+1, Len(s)))
    ELSE << s >>

\* lines.filter(line => line.length > 0 && !line.startsWith(section))
RECURSIVE filterLines(_, _)
filterLines(lines, section) ==
  IF Len(lines) = 0 THEN << >>
  ELSE (IF Len(Head(lines)) > 0 /\ ~startsWith(Head(lines), section)
          THEN << Head(lines) >> ELSE << >>)
       \o filterLines(Tail(lines), section)

\* a literal of a regular expression with the i flag matches s at position i
MatchAt(s, i, lit) ==
  /\ i >= 1
  /\ i + Len(lit) - 1 <= Len(s)
  /\ \A k \in 1..Len(lit) : UpperChar(s[i+k-1]) = UpperChar(lit[k])

\* the position after the greedy \s* that starts at position j
SkipSpaces(s, j) ==
  CHOOSE e \in j..(Len(s)+1) :
    /\ \A k \in j..(e-1) : IsSpace(s[k])
    /\ (e = Len(s)+1 \/ ~IsSpace(s[e]))

----------------------------------------------------------------------------
(* The ten modules *)

\* FactCheckLayer: the literals of its process and parse methods (src/FactCheckLayer.ts).
FactCheckLayer ==
  [ moduleId     |-> "FactCheckLayer",
    statusField  |-> <<"O", "V", "E", "R", "A", "L", "L", "_", "A", "S", "S", "E", "S", "S", "M", "E", "N", "T", ":">>,
    tokens       |-> << <<"P", "A", "S", "S">>,
                       <<"P", "A", "S", "S", "_", "W", "I", "T", "H", "_", "W", "A", "R", "N", "I", "N", "G", "S">>,
                       <<"F", "A", "I", "L">> >>,
    recSection   |-> <<"R", "E", "C", "O", "M", "M", "E", "N", "D", "A", "T", "I", "O", "N", "S", ":">>,
    recStops     |-> << <<"O", "V", "E", "R", "A", "L", "L", "_", "A", "S", "S", "E", "S", "S", "M", "E", "N", "T", ":">> >>,
    invalidFix   |-> "Provide non-empty content for fact checking",
    errorPrefix  |-> "Error during fact checking: ",
    retryFix     |-> "Retry the fact checking process",
    defaultPrompt |-> "FactCheckLayer default prompt",
    promptBlock  |-> "plain" ]

\* EthicalGuardian: the literals of its process and parse methods (src/AIService.ts).
EthicalGuardian ==
  [ moduleId     |-> "EthicalGuardian",
    statusField  |-> <<"O", "V", "E", "R", "A", "L", "L", "_", "R", "A", "T", "I", "N", "G", ":">>,
    tokens       |-> << <<"A", "C", "C", "E", "P", "T", "A", "B", "L", "E">>,
                       <<"N", "E", "E", "D", "S", "_", "R", "E", "V", "I", "S", "I", "O", "N">>,
                       <<"P", "R", "O", "B", "L", "E", "M", "A", "T", "I", "C">> >>,
    recSection   |-> <<"R", "E", "C", "O", "M", "M", "E", "N", "D", "A", "T", "I", "O", "N", "S", ":">>,
    recStops     |-> << <<"T", "O", "N", "E", "_", "A", "S", "S", "E", "S", "S", "M", "E", "N", "T", ":">>,
                       <<"O", "V", "E", "R", "A", "L", "L", "_", "R", "A", "T", "I", "N", "G", ":">> >>,
    invalidFix   |-> "Provide non-empty content for ethical evaluation",
    errorPrefix  |-> "Error during ethical evaluation: ",
    retryFix     |-> "Retry the ethical evaluation process",
    defaultPrompt |-> "EthicalGuardian default prompt",
    promptBlock  |-> "audience" ]

\* ToneAndAudienceModulator: the literals of its process and parse methods (src/ToneAndAudienceModulator.ts).
ToneAndAudienceModulator ==
  [ moduleId     |-> "ToneAndAudienceModulator",
    statusField  |-> <<"O", "V", "E", "R", "A", "L", "L", "_", "A", "S", "S", "E", "S", "S", "M", "E", "N", "T", ":">>,
    tokens       |-> << <<"W", "E", "L", "L", "_", "A", "L", "I", "G", "N", "E", "D">>,
                       <<"M", "I", "N", "O", "R", "_", "A", "D", "J", "U", "S", "T", "M", "E", "N", "T", "S", "_", "N", "E", "E", "D", "E", "D">>,
                       <<"M", "A", "J", "O", "R", "_", "R", "E", "V", "I", "S", "I", "O", "N", "_", "R", "E", "Q", "U", "I", "R", "E", "D">> >>,
    recSection   |-> <<"R", "E", "C", "O", "M", "M", "E", "N", "D", "A", "T", "I", "O", "N", "S", ":">>,
    recStops     |-> << <<"O", "V", "E", "R", "A", "L", "L", "_", "A", "S", "S", "E", "S", "S", "M", "E", "N", "T", ":">> >>,
    invalidFix   |-> "Provide non-empty content for tone and audience analysis",
    errorPrefix  |-> "Error during tone and audience analysis: ",
    retryFix     |-> "Retry the tone and audience analysis",
    defaultPrompt |-> "ToneAndAudienceModulator default prompt",
    promptBlock  |-> "audience" ]

\* PlotLogicBuilder: the literals of its process and parse methods (src/FactCheckLayer.test.ts).
PlotLogicBuilder ==
  [ moduleId     |-> "PlotLogicBuilder",
    statusField  |-> <<"O", "V", "E", "R", "A", "L", "L", "_", "C", "O", "H", "E", "R", "E", "N", "C", "E", ":">>,
    tokens       |-> << <<"S", "T", "R", "O", "N", "G">>,
                       <<"A", "D", "E", "Q", "U", "A", "T", "E">>,
                       <<"N", "E", "E", "D", "S", "_", "R", "E", "S", "T", "R", "U", "C", "T", "U", "R", "I", "N", "G">> >>,
    recSection   |-> <<"R", "E", "C", "O", "M", "M", "E", "N", "D", "A", "T", "I", "O", "N", "S", ":">>,
    recStops     |-> << <<"O", "V", "E", "R", "A", "L", "L", "_", "C", "O", "H", "E", "R", "E", "N", "C", "E", ":">> >>,
    invalidFix   |-> "Provide non-empty content for plot/logic analysis",
    errorPrefix  |-> "Error during plot and logic analysis: ",
    retryFix     |-> "Retry the plot and logic analysis",
    defaultPrompt |-> "PlotLogicBuilder default prompt",
    promptBlock  |-> "plain" ]

\* SimulatedFeedbackReader: the literals of its process and parse methods (src/SimulatedFeedbackReader.ts).
SimulatedFeedbackReader ==
  [ moduleId     |-> "SimulatedFeedbackReader",
    statusField  |-> <<"O", "V", "E", "R", "A", "L", "L", "_", "C", "L", "A", "R", "I", "T", "Y", ":">>,
    tokens       |-> << <<"C", "L", "E", "A", "R">>,
                       <<"S", "O", "M", "E", "W", "H", "A", "T", "_", "C", "L", "E", "A", "R">>,
                       <<"N", "E", "E", "D", "S", "_", "C", "L", "A", "R", "I", "F", "I", "C", "A", "T", "I", "O", "N">> >>,
    recSection   |-> <<"C", "L", "A", "R", "I", "T", "Y", "_", "R", "E", "C", "O", "M", "M", "E", "N", "D", "A", "T", "I", "O", "N", "S", ":">>,
    recStops     |-> << <<"O", "V", "E", "R", "A", "L", "L", "_", "C", "L", "A", "R", "I", "T", "Y", ":">> >>,
    invalidFix   |-> "Provide non-empty content for reader feedback simulation",
    errorPrefix  |-> "Error during simulated reader feedback generation: ",
    retryFix     |-> "Retry the simulated reader feedback generation",
    defaultPrompt |-> "SimulatedFeedbackReader default prompt",
    promptBlock  |-> "audience" ]

\* WYSIWYGLayoutPreview: the literals of its process and parse methods (src/unnamed/part_000).
WYSIWYGLayoutPreview ==
  [ moduleId     |-> "WYSIWYGLayoutPreview",
    statusField  |-> <<"O", "V", "E", "R", "A", "L", "L", "_", "A", "S", "S", "E", "S", "S", "M", "E", "N", "T", ":">>,
    tokens       |-> << <<"R", "E", "A", "D", "Y", "_", "F", "O", "R", "_", "F", "O", "R", "M", "A", "T", "T", "I", "N", "G">>,
                       <<"M", "I", "N", "O", "R", "_", "A", "D", "J", "U", "S", "T", "M", "E", "N", "T", "S", "_", "N", "E", "E", "D", "E", "D">>,
                       <<"M", "A", "J", "O", "R", "_", "R", "E", "S", "T", "R", "U", "C", "T", "U", "R", "I", "N", "G", "_", "R", "E", "Q", "U", "I", "R", "E", "D">> >>,
    recSection   |-> <<"L", "A", "Y", "O", "U", "T", "_", "R", "E", "C", "O", "M", "M", "E", "N", "D", "A", "T", "I", "O", "N", "S", ":">>,
    recStops     |-> << <<"O", "V", "E", "R", "A", "L", "L", "_", "A", "S", "S", "E", "S", "S", "M", "E", "N", "T", ":">> >>,
    invalidFix   |-> "Provide non-empty content for layout preview generation",
    errorPrefix  |-> "Error during layout preview generation: ",
    retryFix     |-> "Retry the layout preview generation",
    defaultPrompt |-> "WYSIWYGLayoutPreview default prompt",
    promptBlock  |-> "audience" ]

\* ChapterImageGallery: the literals of its process and parse methods (src/AIService.ts).
ChapterImageGallery ==
  [ moduleId     |-> "ChapterImageGallery",
    statusField  |-> <<"O", "V", "E", "R", "A", "L", "L", "_", "A", "S", "S", "E", "S", "S", "M", "E", "N", "T", ":">>,
    tokens       |-> << <<"R", "E", "A", "D", "Y", "_", "F", "O", "R", "_", "I", "L", "L", "U", "S", "T", "R", "A", "T", "I", "O", "N">>,
                       <<"P", "A", "R", "T", "I", "A", "L", "_", "C", "O", "V", "E", "R", "A", "G", "E">>,
                       <<"N", "E", "E", "D", "S", "_", "R", "E", "S", "T", "R", "U", "C", "T", "U", "R", "I", "N", "G">> >>,
    recSection   |-> <<"S", "T", "Y", "L", "E", "_", "G", "U", "I", "D", "E", "L", "I", "N", "E", "S", ":">>,
    recStops     |-> << <<"I", "M", "A", "G", "E", "_", "M", "E", "T", "A", "D", "A", "T", "A", ":">>,
                       <<"O", "V", "E", "R", "A", "L", "L", "_", "A", "S", "S", "E", "S", "S", "M", "E", "N", "T", ":">> >>,
    invalidFix   |-> "Provide non-empty content for chapter image generation",
    errorPrefix  |-> "Error during chapter image gallery generation: ",
    retryFix     |-> "Retry the chapter image gallery generation",
    defaultPrompt |-> "ChapterImageGallery default prompt",
    promptBlock  |-> "audience" ]

\* SmartExportEngine: the literals of its process and parse methods (src/testUtils.ts).
SmartExportEngine ==
  [ moduleId     |-> "SmartExportEngine",
    statusField  |-> <<"O", "V", "E", "R", "A", "L", "L", "_", "A", "S", "S", "E", "S", "S", "M", "E", "N", "T", ":">>,
    tokens       |-> << <<"R", "E", "A", "D", "Y", "_", "F", "O", "R", "_", "E", "X", "P", "O", "R", "T">>,
                       <<"M", "I", "N", "O", "R", "_", "A", "D", "J", "U", "S", "T", "M", "E", "N", "T", "S", "_", "N", "E", "E", "D", "E", "D">>,
                       <<"M", "A", "J", "O", "R", "_", "R", "E", "S", "T", "R", "U", "C", "T", "U", "R", "I", "N", "G", "_", "R", "E", "Q", "U", "I", "R", "E", "D">> >>,
    recSection   |-> <<"E", "X", "P", "O", "R", "T", "_", "R", "E", "C", "O", "M", "M", "E", "N", "D", "A", "T", "I", "O", "N", "S", ":">>,
    recStops     |-> << <<"O", "V", "E", "R", "A", "L", "L", "_", "A", "S", "S", "E", "S", "S", "M", "E", "N", "T", ":">> >>,
    invalidFix   |-> "Provide non-empty content for export specification generation",
    errorPrefix  |-> "Error during export specification generation: ",
    retryFix     |-> "Retry the export specification generation",
    defaultPrompt |-> "SmartExportEngine default prompt",
    promptBlock  |-> "audience" ]

\* PromptTraceability: the literals of its process and parse methods (src/unnamed/part_001).
PromptTraceability ==
  [ moduleId     |-> "PromptTraceability",
    statusField  |-> <<"O", "V", "E", "R", "A", "L", "L", "_", "A", "S", "S", "E", "S", "S", "M", "E", "N", "T", ":">>,
    tokens       |-> << <<"F", "U", "L", "L", "Y", "_", "T", "R", "A", "C", "E", "A", "B", "L", "E">>,
                       <<"P", "A", "R", "T", "I", "A", "L", "L", "Y", "_", "T", "R", "A", "C", "E", "A", "B", "L", "E">>,
                       <<"N", "O", "T", "_", "T", "R", "A", "C", "E", "A", "B", "L", "E">> >>,
    recSection   |-> <<"R", "E", "C", "O", "M", "M", "E", "N", "D", "E", "D", "_", "M", "E", "T", "A", "D", "A", "T", "A", ":">>,
    recStops     |-> << <<"I", "M", "P", "L", "E", "M", "E", "N", "T", "A", "T", "I", "O", "N", "_", "A", "P", "P", "R", "O", "A", "C", "H", ":">>,
                       <<"O", "V", "E", "R", "A", "L", "L", "_", "A", "S", "S", "E", "S", "S", "M", "E", "N", "T", ":">> >>,
    invalidFix   |-> "Provide non-empty content for traceability analysis",
    errorPrefix  |-> "Error during prompt traceability analysis: ",
    retryFix     |-> "Retry the prompt traceability analysis",
    defaultPrompt |-> "PromptTraceability default prompt",
    promptBlock  |-> "trace" ]

\* HallucinationFilter: the literals of its process and parse methods (src/HallucinationFilter.ts).
HallucinationFilter ==
  [ moduleId     |-> "HallucinationFilter",
    statusField  |-> <<"O", "V", "E", "R", "A", "L", "L", "_", "A", "S", "S", "E", "S", "S", "M", "E", "N", "T", ":">>,
    tokens       |-> << <<"N", "O", "_", "H", "A", "L", "L", "U", "C", "I", "N", "A", "T", "I", "O", "N", "S", "_", "D", "E", "T", "E", "C", "T", "E", "D">>,
                       <<"M", "I", "N", "O", "R", "_", "H", "A", "L", "L", "U", "C", "I", "N", "A", "T", "I", "O", "N", "S">>,
                       <<"S", "I", "G", "N", "I", "F", "I", "C", "A", "N", "T", "_", "H", "A", "L", "L", "U", "C", "I", "N", "A", "T", "I", "O", "N", "S">> >>,
    recSection   |-> <<"R", "E", "C", "O", "M", "M", "E", "N", "D", "E", "D", "_", "A", "C", "T", "I", "O", "N", "S", ":">>,
    recStops     |-> << <<"O", "V", "E", "R", "A", "L", "L", "_", "A", "S", "S", "E", "S", "S", "M", "E", "N", "T", ":">> >>,
    invalidFix   |-> "Provide non-empty content for hallucination detection",
    errorPrefix  |-> "Error during hallucination detection: ",
    retryFix     |-> "Retry the hallucination detection",
    defaultPrompt |-> "HallucinationFilter default prompt",
    promptBlock  |-> "plain" ]
\* the ten module instances, in the order index.ts registers them
AllModules ==
  << FactCheckLayer, EthicalGuardian, ToneAndAudienceModulator, PlotLogicBuilder,
     SimulatedFeedbackReader, WYSIWYGLayoutPreview, ChapterImageGallery,
     SmartExportEngine, PromptTraceability, HallucinationFilter >>

ModuleIds == { AllModules[k].moduleId : k \in 1..Len(AllModules) }

\* the module instance a registered id stands for
ModuleOf(id) ==
  AllModules[CHOOSE k \in 1..Len(AllModules) : AllModules[k].moduleId = id]

UNKNOWN == << "U","N","K","N","O","W","N" >>

\* completion.match(/<statusField>\s*(tok1|tok2|tok3)/i): the captured group of
\* the leftmost match (alternatives tried in the order written), or no match
StatusMatch(m, completion) ==
  LET After(i) == SkipSpaces(completion, i + Len(m.statusField))
      Alts(i)  == { a \in 1..3 : MatchAt(completion, After(i), m.tokens[a]) }
      Hits     == { i \in 1..Len(completion) :
                      MatchAt(completion, i, m.statusField) /\ Alts(i) # {} }
  IN  IF Hits = {} THEN << >>
      ELSE LET i == CHOOSE h \in Hits : \A g \in Hits : h <= g
               a == CHOOSE x \in Alts(i) : \A y \in Alts(i) : x <= y
           IN  << SubSeq(completion, After(i),
                         After(i) + Len(m.tokens[a]) - 1) >>

\* the switch over the upper-cased captured token
StatusOf(m, overallAssessment) ==
  CASE overallAssessment = m.tokens[1] -> "success"
    [] overallAssessment = m.tokens[2] -> "warning"
    [] overallAssessment = m.tokens[3] -> "error"
    [] OTHER -> "warning"

\* the recommendations regex without the lookahead for the next header: the
\* group runs to the end of the text
RecommendationsMatch_toEnd(m, completion) ==
  LET Hits == { i \in 1..Len(completion) : MatchAt(completion, i, m.recSection) }
  IN  IF Hits = {} THEN << >>
      ELSE LET i == CHOOSE h \in Hits : \A g \in Hits : h <= g
           IN  << SubSeq(completion, i + Len(m.recSection), Len(completion)) >>

\* completion.match(/<recSection>(.*?)(?=stop1|stop2|$)/is): the lazy group of
\* the leftmost match, or no match
RecommendationsMatch(m, completion) ==
  LET Hits == { i \in 1..Len(completion) : MatchAt(completion, i, m.recSection) }
  IN  IF Hits = {} THEN << >>
      ELSE LET i     == CHOOSE h \in Hits : \A g \in Hits : h <= g
               from  == i + Len(m.recSection)
               Stop(e) == \/ e = Len(completion) + 1
                          \/ \E k \in 1..Len(m.recStops) :
                               MatchAt(completion, e, m.recStops[k])
               e     == CHOOSE x \in from..(Len(completion)+1) :
                          /\ Stop(x)
                          /\ \A y \in from..(x-1) : ~Stop(y)
           IN  << SubSeq(completion, from, e-1) >>

\* parseFactCheckResults and its nine counterparts
parseResults(m, completion) ==
  LET overallAssessmentMatch == StatusMatch(m, completion)
      overallAssessment ==
        IF overallAssessmentMatch # << >>
          THEN toUpperCase(overallAssessmentMatch[1]) ELSE UNKNOWN
      recommendationsMatch == RecommendationsMatch(m, completion)
      recommendationsText ==
        IF recommendationsMatch # << >> THEN trim(recommendationsMatch[1]) ELSE << >>
      lines == split(recommendationsText)
      trimmed == [k \in 1..Len(lines) |-> trim(lines[k])]
  IN  [ report           |-> completion,
        status           |-> StatusOf(m, overallAssessment),
        recommendedFixes |-> filterLines(trimmed, m.recSection) ]

----------------------------------------------------------------------------
(* The module contract: BaseModule and process *)

\* ModuleOptions with neither customPrompt nor model (also: options undefined)
NoOptions == [ customPrompt |-> << >>, model |-> << >> ]

\* validateInput without the trim: only the empty string is refused
validateInput_noTrim(in) ==
  ~ (Len(in.content) = 0)

\* BaseModule.validateInput
validateInput(in) ==
  ~ (Len(in.content) = 0 \/ Len(trim(in.content)) = 0)

\* createMetadata recording the module's default prompt whatever was asked
createMetadata_defaultPrompt(m, options) ==
  [ promptUsed   |-> << m.defaultPrompt >>,
    modelVersion |-> IF options.model # << >> THEN options.model[1] ELSE "default-model" ]

\* BaseModule.createMetadata
createMetadata(m, options) ==
  [ promptUsed   |-> IF options.customPrompt # << >>
                       THEN << options.customPrompt[1] >> ELSE << m.defaultPrompt >>,
    modelVersion |-> IF options.model # << >> THEN options.model[1] ELSE "default-model" ]

\* BaseModule.createResult
createResult(m, status, report, recommendedFixes, metadata) ==
  [ moduleId         |-> m.moduleId,
    status           |-> status,
    report           |-> report,
    recommendedFixes |-> IF Len(recommendedFixes) > 0
                           THEN << recommendedFixes >> ELSE << >>,
    metadata         |-> metadata ]

\* preparePrompt: custom or default template, then the rendered content block
preparePrompt(m, in, options) ==
  LET customPrompt == IF options.customPrompt # << >>
                        THEN options.customPrompt[1] ELSE m.defaultPrompt
      Or(field, dflt) == IF field # << >> THEN field[1] ELSE dflt
      extra ==
        CASE m.promptBlock = "audience" ->
               << "\nTarget Audience: ", Or(in.targetAudience, "General") >>
          [] m.promptBlock = "trace" ->
               << "\nTrace ID: ", "uuid", "\nTimestamp: ", "now",
                  "\nModel: ", Or(options.model, "default-model") >>
          [] OTHER -> << >>
  IN  << "\n", customPrompt, "\n\nCONTENT TO ANALYZE:\nTitle: ",
         Or(in.title, "Untitled"), "\nAuthor: ", Or(in.author, "Unknown"),
         "\nContent Type: ", Or(in.contentType, "Unknown") >>
      \o extra \o << "\n\n" >> \o in.content \o << "\n    " >>

\* AIService.convertModuleOptionsToAIOptions
convertModuleOptionsToAIOptions(moduleOptions) ==
  [ model       |-> IF moduleOptions.model # << >> THEN moduleOptions.model[1] ELSE "gpt-4",
    temperature |-> 7,   \* tenths
    topP        |-> 1 ]

\* process, first half: the early return on invalid input
processInvalid(m, options) ==
  createResult(m, "error", << "Invalid input", ": content is required" >>,
               << << m.invalidFix >> >>, createMetadata(m, options))

\* process, the try block after the completion arrived
processCompletion(m, options, completion) ==
  LET parsed == parseResults(m, completion)
  IN  createResult(m, parsed.status, parsed.report, parsed.recommendedFixes,
                   createMetadata(m, options))

\* the catch block with the error's message left out of the report
processFailure_noMessage(m, options, message) ==
  createResult(m, "error", << m.errorPrefix >>,
               << << m.retryFix >>, << "Check API connectivity" >> >>,
               createMetadata(m, options))

\* process, the catch block; message is error.message
processFailure(m, options, message) ==
  createResult(m, "error", << m.errorPrefix >> \o message,
               << << m.retryFix >>, << "Check API connectivity" >> >>,
               createMetadata(m, options))

\* AIService.generateCompletion's catch: the Provider's error, wrapped
generateCompletionError(providerMessage) ==
  << "Failed to generate completion: ", providerMessage >>

\* module.process(input, options) up to its first suspension: the call has
\* returned a result (invalid input) or waits for the Provider
StartProcess(entry, id, in, options) ==
  LET m == ModuleOf(id)
  IN  IF ~validateInput(in)
        THEN [ entry |-> entry, moduleId |-> id, options |-> options,
               state |-> "resolved", processCalled |-> TRUE, request |-> << >>,
               value |-> << processInvalid(m, options) >>, error |-> << >>,
               response |-> << >>,
               settledAt |-> << 0 >> ]
        ELSE [ entry |-> entry, moduleId |-> id, options |-> options,
               state |-> "inflight", processCalled |-> TRUE,
               request |-> << [ prompt  |-> preparePrompt(m, in, options),
                                options |-> convertModuleOptionsToAIOptions(options) ] >>,
               value |-> << >>, error |-> << >>, response |-> << >>,
               settledAt |-> << >> ]

----------------------------------------------------------------------------
(* The controller *)

\* runModule reporting an unknown id as an error result instead of throwing
StartRunModule_asResult(entry, id, in, options) ==
  IF id \notin DOMAIN modules
    THEN [ entry |-> entry, moduleId |-> id, options |-> options,
           state |-> "resolved", processCalled |-> FALSE, request |-> << >>,
           value |-> << [ moduleId |-> id, status |-> "error",
                          report |-> << "Error running module: ", "Module ", id,
                                        " not found" >>,
                          recommendedFixes |-> << >>,
                          metadata |-> [ promptUsed |-> << "default" >>,
                                         modelVersion |-> "default-model" ] ] >>,
           error |-> << >>, response |-> << >>,
           settledAt |-> << 0 >> ]
    ELSE StartProcess(entry, id, in, options)

\* runModule(moduleId, input, options) up to its first suspension: it threw
\* 'Module <id> not found', or it called module.process
StartRunModule(entry, id, in, options) ==
  IF id \notin DOMAIN modules
    THEN [ entry |-> entry, moduleId |-> id, options |-> options,
           state |-> "rejected", processCalled |-> FALSE, request |-> << >>,
           value |-> << >>, error |-> << << "Module ", id, " not found" >> >>,
           response |-> << >>,
           settledAt |-> << 0 >> ]
    ELSE StartProcess(entry, id, in, options)

\* runModule, the catch block: process threw or rejected; message is
\* error.message.  The result is built by hand: no recommendedFixes
runModuleCatch(id, options, message) ==
  [ moduleId         |-> id,
    status           |-> "error",
    report           |-> << "Error running module: " >> \o message,
    recommendedFixes |-> << >>,
    metadata         |-> [ promptUsed   |-> IF options.customPrompt # << >>
                                             THEN << options.customPrompt[1] >>
                                             ELSE << "default" >>,
                           modelVersion |-> IF options.model # << >>
                                             THEN options.model[1]
                                             ELSE "default-model" ] ]

\* a JavaScript condition on an optional boolean: undefined is falsy
Truthy(flag) == flag # << >> /\ flag[1]

\* workflowOptions.options?.[moduleId]
moduleOptionsOf(wo, id) ==
  IF id \in DOMAIN wo.options THEN wo.options[id] ELSE NoOptions

\* the counts taken as "is there one" instead of "how many"
Count_some(rs, status) ==
  IF \E k \in 1..Len(rs) : rs[k].status = status THEN 1 ELSE 0

Count(rs, status) == Cardinality({ k \in 1..Len(rs) : rs[k].status = status })

statusUpper(status) ==
  CASE status = "success" -> "SUCCESS"
    [] status = "warning" -> "WARNING"
    [] status = "error"   -> "ERROR"

RECURSIVE issueLines(_)
issueLines(rs) ==
  IF Len(rs) = 0 THEN << >>
  ELSE LET r == Head(rs)
       IN  (IF r.status = "warning" \/ r.status = "error"
              THEN << [ status   |-> statusUpper(r.status),
                        moduleId |-> r.moduleId,
                        text     |-> split(r.report)[1],
                        fixes    |-> IF r.recommendedFixes # << >>
                                       /\ Len(r.recommendedFixes[1]) > 0
                                       THEN << Len(r.recommendedFixes[1]) >>
                                       ELSE << >> ] >>
              ELSE << >>)
           \o issueLines(Tail(rs))

\* the issues block written whether or not a warning or an error exists
generateWorkflowSummary_alwaysBlock(rs) ==
  LET successCount == Count(rs, "success")
      warningCount == Count(rs, "warning")
      errorCount   == Count(rs, "error")
  IN  [ totalModules |-> Len(rs),
        successCount |-> successCount,
        warningCount |-> warningCount,
        errorCount   |-> errorCount,
        issues       |-> << issueLines(rs) >> ]

\* generateWorkflowSummary: the header counts and the optional issues block
generateWorkflowSummary(rs) ==
  LET successCount == Count(rs, "success")
      warningCount == Count(rs, "warning")
      errorCount   == Count(rs, "error")
  IN  [ totalModules |-> Len(rs),
        successCount |-> successCount,
        warningCount |-> warningCount,
        errorCount   |-> errorCount,
        issues       |-> IF warningCount > 0 \/ errorCount > 0
                           THEN << issueLines(rs) >> ELSE << >> ]

\* the WorkflowResult runWorkflow builds after either branch
workflowResult(status, rs) ==
  [ status |-> status, results |-> rs, summary |-> generateWorkflowSummary(rs) ]

NothingReturned == [ kind |-> "none", error |-> << >>, result |-> << >>, workflow |-> << >> ]

Threw(message) ==
  [ kind |-> "error", error |-> << message >>, result |-> << >>, workflow |-> << >> ]

ReturnedResult(r) ==
  [ kind |-> "moduleResult", error |-> << >>, result |-> << r >>, workflow |-> << >> ]

ReturnedWorkflow(w) ==
  [ kind |-> "workflowResult", error |-> << >>, result |-> << >>, workflow |-> << w >> ]

\* getModule's return value: the instance, or undefined
ReturnedModule(found) ==
  [ kind |-> "module", error |-> << >>, result |-> found, workflow |-> << >> ]

\* getAllModules' return value: the array of instances
ReturnedModules(all) ==
  [ kind |-> "modules", error |-> << >>, result |-> << all >>, workflow |-> << >> ]

\* the body of an HTTP response: an error object or res.json(result)
JsonError(error, message) ==
  [ error |-> << error >>, message |-> message, result |-> << >> ]

JsonResult(result) ==
  [ error |-> << >>, message |-> << >>, result |-> << result >> ]

\* res.status(status).json(body); res.json(body) answers with status 200
Responded(status, body) ==
  [ kind |-> "response", error |-> << >>,
    result |-> << [ status |-> status, body |-> body ] >>, workflow |-> << >> ]

NoWorkflow == [ modules |-> << >>, sequential |-> << >>, stopOnError |-> << >>,
                options |-> << >> ]

Init ==
  /\ modules = << >>
  /\ registrations = << >>
  /\ op = "none"
  /\ input = [ content |-> << >>, title |-> << >>, author |-> << >>,
               contentType |-> << >>, targetAudience |-> << >> ]
  /\ workflowOptions = NoWorkflow
  /\ pc = "idle"
  /\ results = << >>
  /\ overallStatus = "success"
  /\ tasks = << >>
  /\ returned = NothingReturned

\* the calls of ts that settled without suspending (settledAt 0: an unknown id,
\* an invalid input) settled when they were made, one after another
StampSettled(ts) ==
  [ k \in 1..Len(ts) |->
      IF ts[k].settledAt = << 0 >>
        THEN [ ts[k] EXCEPT !.settledAt =
                 << Cardinality({ j \in 1..k : ts[j].settledAt # << >> }) >> ]
        ELSE ts[k] ]

\* Map.prototype.set: a new key goes to the end of the Map, a key that is
\* there keeps its place and gets the new value
MapSet(map, id, instance) ==
  [ x \in (DOMAIN map) \cup {id} |->
      IF x = id
        THEN [ instance |-> instance,
               slot     |-> IF id \in DOMAIN map THEN map[id].slot
                            ELSE Cardinality(DOMAIN map) + 1 ]
        ELSE map[x] ]

\* getModule(moduleId): this.modules.get(moduleId), undefined when absent
getModule(id) ==
  IF id \in DOMAIN modules
    THEN << [ moduleId |-> id, instance |-> modules[id].instance ] >>
    ELSE << >>

\* getAllModules(): Array.from(this.modules.values()), in the Map's key order
getAllModules ==
  [ i \in 1..Cardinality(DOMAIN modules) |->
      LET id == CHOOSE x \in DOMAIN modules : modules[x].slot = i
      IN  [ moduleId |-> id, instance |-> modules[id].instance ] ]

\* registerModule refusing an id that is already registered
RegisterModule_rejectDuplicate(id) ==
  /\ pc = "idle"
  /\ Len(registrations) < MaxRegistrations
  /\ registrations' = Append(registrations, id)
  /\ IF id \in DOMAIN modules
       THEN /\ modules' = modules
            /\ returned' = Threw(<< "Module with ID ", id, " already exists" >>)
       ELSE /\ modules' = MapSet(modules, id, Len(registrations) + 1)
            /\ returned' = returned
  /\ UNCHANGED << op, input, workflowOptions, pc, results, overallStatus, tasks >>

\* registerModule(module): set (or overwrite) the id's entry; an overwrite is
\* logged as a warning and nothing is thrown.  Registration is done at
\* startup, before any call is made.
RegisterModule(id) ==
  /\ pc = "idle"
  /\ Len(registrations) < MaxRegistrations
  /\ registrations' = Append(registrations, id)
  /\ modules' = MapSet(modules, id, Len(registrations) + 1)
  /\ UNCHANGED << op, input, workflowOptions, pc, results, overallStatus,
                  tasks, returned >>

\* getModule called after the registrations
GetModule(id) ==
  /\ pc = "idle"
  /\ op' = "getModule"
  /\ pc' = "done"
  /\ returned' = ReturnedModule(getModule(id))
  /\ UNCHANGED << modules, registrations, input, workflowOptions, results,
                  overallStatus, tasks >>

\* getAllModules called after the registrations
GetAllModules ==
  /\ pc = "idle"
  /\ op' = "getAllModules"
  /\ pc' = "done"
  /\ returned' = ReturnedModules(getAllModules)
  /\ UNCHANGED << modules, registrations, input, workflowOptions, results,
                  overallStatus, tasks >>

\* runModule called directly
RunModule(id, in, options) ==
  /\ pc = "idle"
  /\ LET t == StartRunModule(0, id, in, options)
     IN  /\ tasks' = StampSettled(<< t >>)
         /\ pc' = IF t.state = "inflight" THEN "await" ELSE "done"
         /\ returned' = CASE t.state = "rejected" -> Threw(t.error[1])
                          [] t.state = "resolved" -> ReturnedResult(t.value[1])
                          [] OTHER -> returned
  /\ op' = "runModule"
  /\ input' = in
  /\ UNCHANGED << modules, registrations, workflowOptions, results, overallStatus >>

\* app.post('/api/module/:moduleId') up to its first suspension; content is
\* req.body.content, absent or a ContentInput
PostModule(id, content, options) ==
  /\ pc = "idle"
  /\ op' = "postModule"
  /\ IF content = << >>
       THEN /\ returned' = Responded(400, JsonError("Content is required", << >>))
            /\ pc' = "done"
            /\ UNCHANGED << tasks, input >>
       ELSE LET t == StartRunModule(0, id, content[1], options)
            IN  /\ tasks' = StampSettled(<< t >>)
                /\ input' = content[1]
                /\ pc' = IF t.state = "inflight" THEN "await" ELSE "done"
                /\ returned' =
                     CASE t.state = "rejected" ->
                            \* the handler's catch block
                            Responded(500, JsonError("Error running module",
                                                     << t.error[1] >>))
                       [] t.state = "resolved" -> Responded(200, JsonResult(t.value[1]))
                       [] OTHER -> returned
  /\ UNCHANGED << modules, registrations, workflowOptions, results, overallStatus >>

\* a module's process called directly on the instance
ProcessCall(id, in, options) ==
  /\ pc = "idle"
  /\ LET t == StartProcess(0, id, in, options)
     IN  /\ tasks' = StampSettled(<< t >>)
         /\ pc' = IF t.state = "inflight" THEN "await" ELSE "done"
         /\ returned' = IF t.state = "resolved"
                          THEN ReturnedResult(t.value[1]) ELSE returned
  /\ op' = "process"
  /\ input' = in
  /\ UNCHANGED << modules, registrations, workflowOptions, results, overallStatus >>

\* runWorkflow dispatching the whole list at once whatever `sequential` says
RunWorkflow_alwaysParallel(in, wo) ==
  /\ pc = "idle"
  /\ op' = "runWorkflow"
  /\ input' = in
  /\ workflowOptions' = wo
  /\ results' = << >>
  /\ overallStatus' = "success"
  /\ pc' = "join"
  /\ tasks' = StampSettled([ k \in 1..Len(wo.modules) |->
                  StartRunModule(k, wo.modules[k], in,
                                 moduleOptionsOf(wo, wo.modules[k])) ])
  /\ UNCHANGED << modules, registrations, returned >>

\* runWorkflow up to its first suspension.  The parallel branch maps over the
\* whole list at once: every runModule call is started, in list order.
RunWorkflow(in, wo) ==
  /\ pc = "idle"
  /\ op' = "runWorkflow"
  /\ input' = in
  /\ workflowOptions' = wo
  /\ results' = << >>
  /\ overallStatus' = "success"
  /\ IF Truthy(wo.sequential)
       THEN /\ pc' = "loop"
            /\ tasks' = << >>
       ELSE /\ pc' = "join"
            /\ tasks' = StampSettled([ k \in 1..Len(wo.modules) |->
                            StartRunModule(k, wo.modules[k], in,
                                           moduleOptionsOf(wo, wo.modules[k])) ])
  /\ UNCHANGED << modules, registrations, returned >>

\* index.ts at startup: the ten modules registered one after another, before
\* the server takes a request
Startup ==
  /\ pc = "idle"
  /\ registrations = << >>
  /\ registrations' = [ k \in 1..Len(AllModules) |-> AllModules[k].moduleId ]
  /\ modules' = [ id \in ModuleIds |->
                    LET k == CHOOSE j \in 1..Len(AllModules) : AllModules[j].moduleId = id
                    IN  [ instance |-> k, slot |-> k ] ]
  /\ UNCHANGED << op, input, workflowOptions, pc, results, overallStatus,
                  tasks, returned >>

\* the preset methods of WorkflowManager
PresetNames ==
  { "runComprehensiveAnalysis", "runFactualIntegrityWorkflow",
    "runEthicalReviewWorkflow", "runReaderExperienceWorkflow",
    "runPublicationPrepWorkflow" }

\* the module list written in each preset method
PresetModules(name) ==
  CASE name = "runComprehensiveAnalysis" ->
         << "FactCheckLayer", "EthicalGuardian", "ToneAndAudienceModulator",
            "PlotLogicBuilder", "SimulatedFeedbackReader", "HallucinationFilter",
            "WYSIWYGLayoutPreview", "ChapterImageGallery", "PromptTraceability",
            "SmartExportEngine" >>
    [] name = "runFactualIntegrityWorkflow" ->
         << "FactCheckLayer", "HallucinationFilter", "PromptTraceability" >>
    [] name = "runEthicalReviewWorkflow" ->
         << "EthicalGuardian", "ToneAndAudienceModulator", "PromptTraceability" >>
    [] name = "runReaderExperienceWorkflow" ->
         << "ToneAndAudienceModulator", "PlotLogicBuilder", "SimulatedFeedbackReader",
            "PromptTraceability" >>
    [] name = "runPublicationPrepWorkflow" ->
         << "WYSIWYGLayoutPreview", "ChapterImageGallery", "SmartExportEngine",
            "PromptTraceability" >>

\* the presets stopping at the first error
PresetOptions_stopOnError(name) ==
  [ modules |-> PresetModules(name), sequential |-> << TRUE >>,
    stopOnError |-> << TRUE >>, options |-> << >> ]

\* the WorkflowOptions a preset method builds: no per-module options
PresetOptions(name) ==
  [ modules |-> PresetModules(name), sequential |-> << TRUE >>,
    stopOnError |-> << FALSE >>, options |-> << >> ]

\* a preset method: build the options, return this.controller.runWorkflow(...)
RunPreset(name, in) == RunWorkflow(in, PresetOptions(name))

\* the loop body with a warning overwriting an earlier error
SeqCollect_warningOverwrites(result) ==
  /\ results' = Append(results, result)
  /\ IF result.status = "error"
       THEN /\ overallStatus' = "error"
            /\ pc' = IF Truthy(workflowOptions.stopOnError) THEN "finish" ELSE "loop"
       ELSE /\ overallStatus' = IF result.status = "warning"
                                  THEN "warning" ELSE overallStatus
            /\ pc' = "loop"

\* the loop body without the break on error
SeqCollect_neverStops(result) ==
  /\ results' = Append(results, result)
  /\ overallStatus' = IF result.status = "error" THEN "error"
                      ELSE IF result.status = "warning" /\ overallStatus # "error"
                        THEN "warning" ELSE overallStatus
  /\ pc' = "loop"

\* the loop body breaking on every error, whatever stopOnError says
SeqCollect_alwaysStops(result) ==
  /\ results' = Append(results, result)
  /\ IF result.status = "error"
       THEN /\ overallStatus' = "error"
            /\ pc' = "finish"
       ELSE /\ overallStatus' = IF result.status = "warning" /\ overallStatus # "error"
                                  THEN "warning" ELSE overallStatus
            /\ pc' = "loop"

\* the sequential loop body after `await this.runModule(...)` returned result
SeqCollect(result) ==
  /\ results' = Append(results, result)
  /\ IF result.status = "error"
       THEN /\ overallStatus' = "error"
            /\ pc' = IF Truthy(workflowOptions.stopOnError) THEN "finish" ELSE "loop"
       ELSE /\ overallStatus' = IF result.status = "warning" /\ overallStatus # "error"
                                  THEN "warning" ELSE overallStatus
            /\ pc' = "loop"

\* the sequential loop with a catch block that always breaks
SeqInvoke_catchBreaks ==
  /\ pc = "loop"
  /\ Len(tasks) < Len(workflowOptions.modules)
  /\ LET k  == Len(tasks) + 1
         id == workflowOptions.modules[k]
         t  == StartRunModule(k, id, input, moduleOptionsOf(workflowOptions, id))
     IN  /\ tasks' = StampSettled(Append(tasks, t))
         /\ CASE t.state = "rejected" ->
                   /\ results' = results
                   /\ overallStatus' = "error"
                   /\ pc' = "finish"
              [] t.state = "resolved" -> SeqCollect(t.value[1])
              [] OTHER ->
                   /\ pc' = "await"
                   /\ UNCHANGED << results, overallStatus >>
  /\ UNCHANGED << modules, registrations, op, input, workflowOptions, returned >>

\* one iteration of the sequential loop, up to the suspension in runModule
SeqInvoke ==
  /\ pc = "loop"
  /\ Len(tasks) < Len(workflowOptions.modules)
  /\ LET k  == Len(tasks) + 1
         id == workflowOptions.modules[k]
         t  == StartRunModule(k, id, input, moduleOptionsOf(workflowOptions, id))
     IN  /\ tasks' = StampSettled(Append(tasks, t))
         /\ CASE t.state = "rejected" ->
                   \* the catch block of the loop body
                   /\ results' = results
                   /\ IF Truthy(workflowOptions.stopOnError)
                        THEN overallStatus' = "error" /\ pc' = "finish"
                        ELSE overallStatus' = overallStatus /\ pc' = "loop"
              [] t.state = "resolved" -> SeqCollect(t.value[1])
              [] OTHER ->
                   /\ pc' = "await"
                   /\ UNCHANGED << results, overallStatus >>
  /\ UNCHANGED << modules, registrations, op, input, workflowOptions, returned >>

\* the sequential branch returning only after a break
SeqReturn_onlyAfterBreak ==
  /\ pc = "finish"
  /\ pc' = "done"
  /\ returned' = ReturnedWorkflow(workflowResult(overallStatus, results))
  /\ UNCHANGED << modules, registrations, op, input, workflowOptions, results,
                  overallStatus, tasks >>

\* the sequential branch is over (list exhausted or break): build and return
SeqReturn ==
  /\ \/ pc = "finish"
     \/ pc = "loop" /\ Len(tasks) = Len(workflowOptions.modules)
  /\ pc' = "done"
  /\ returned' = ReturnedWorkflow(workflowResult(overallStatus, results))
  /\ UNCHANGED << modules, registrations, op, input, workflowOptions, results,
                  overallStatus, tasks >>

\* a rejected module promise is handled before any Provider response arrives
RejectionPending ==
  pc = "join" /\ \E k \in 1..Len(tasks) : tasks[k].state = "rejected"

\* how many calls have settled so far
Settled == Cardinality({ j \in 1..Len(tasks) : tasks[j].settledAt # << >> })

\* what the caller of task k does with the result process resolved to; the
\* call is the next one to settle
Settle(k, result, response) ==
  /\ tasks' = [ tasks EXCEPT ![k].state = "resolved", ![k].value = << result >>,
                             ![k].response = << response >>,
                             ![k].settledAt = << Settled + 1 >> ]
  /\ CASE op \in {"runModule", "process"} ->
            /\ pc' = "done"
            /\ returned' = ReturnedResult(result)
            /\ UNCHANGED << results, overallStatus >>
       [] op = "postModule" ->
            \* the route handler: return res.json(result)
            /\ pc' = "done"
            /\ returned' = Responded(200, JsonResult(result))
            /\ UNCHANGED << results, overallStatus >>
       [] op = "runWorkflow" /\ pc = "await" ->
            /\ SeqCollect(result)
            /\ UNCHANGED returned
       [] OTHER ->
            \* parallel: the promise settles; Promise.all decides in ParJoin
            UNCHANGED << pc, returned, results, overallStatus >>
  /\ UNCHANGED << modules, registrations, op, input, workflowOptions >>

\* the Provider answers call k with a completion
ProviderResolve(k, completion) ==
  /\ k \in 1..Len(tasks)
  /\ tasks[k].state = "inflight"
  /\ ~RejectionPending
  /\ Settle(k, processCompletion(ModuleOf(tasks[k].moduleId), tasks[k].options,
                                 completion),
            [ kind |-> "completion", text |-> completion ])

\* the Provider call k fails with a message
ProviderFail(k, providerMessage) ==
  /\ k \in 1..Len(tasks)
  /\ tasks[k].state = "inflight"
  /\ ~RejectionPending
  /\ Settle(k, processFailure(ModuleOf(tasks[k].moduleId), tasks[k].options,
                              generateCompletionError(providerMessage)),
            [ kind |-> "failure", text |-> << providerMessage >> ])

\* the process promise rejecting and runModule letting the error through
ProcessReject_rethrow(k, message) ==
  /\ k \in 1..Len(tasks)
  /\ tasks[k].state = "inflight"
  /\ op = "runModule"
  /\ tasks' = [ tasks EXCEPT ![k].state = "rejected", ![k].error = << message >>,
                             ![k].response = << [ kind |-> "rejection",
                                                  text |-> message ] >> ]
  /\ pc' = "done"
  /\ returned' = Threw(message)
  /\ UNCHANGED << modules, registrations, op, input, workflowOptions, results,
                  overallStatus >>

\* the registered instance is some implementation of ContentGuardianModule
\* whose process lets an error escape (a raw Provider exception, a failure of
\* its own): `await module.process(...)` throws inside runModule's try
ProcessReject(k, message) ==
  /\ k \in 1..Len(tasks)
  /\ tasks[k].state = "inflight"
  /\ op = "runModule"
  /\ Settle(k, runModuleCatch(tasks[k].moduleId, tasks[k].options, message),
            [ kind |-> "rejection", text |-> message ])

\* the join returning as soon as one module promise resolved (a race), with
\* the results that are there
ParJoin_race ==
  /\ pc = "join"
  /\ \A k \in 1..Len(tasks) : tasks[k].state # "rejected"
  /\ \E k \in 1..Len(tasks) : tasks[k].state = "resolved"
  /\ LET settled == SelectSeq(tasks, LAMBDA t : t.state = "resolved")
         rs == [ k \in 1..Len(settled) |-> settled[k].value[1] ]
         status == IF \E k \in 1..Len(rs) : rs[k].status = "error" THEN "error"
                   ELSE IF \E k \in 1..Len(rs) : rs[k].status = "warning" THEN "warning"
                   ELSE overallStatus
     IN  /\ results' = rs
         /\ overallStatus' = status
         /\ returned' = ReturnedWorkflow(workflowResult(status, rs))
  /\ pc' = "done"
  /\ UNCHANGED << modules, registrations, op, input, workflowOptions, tasks >>

\* the join collecting the results in the order the promises resolved
ParJoin_completionOrder ==
  /\ pc = "join"
  /\ \A k \in 1..Len(tasks) : tasks[k].state = "resolved"
  /\ LET moduleResults ==
           [ i \in 1..Len(tasks) |->
               tasks[CHOOSE k \in 1..Len(tasks) : tasks[k].settledAt = << i >>].value[1] ]
         rs == results \o moduleResults
         status == IF \E k \in 1..Len(rs) : rs[k].status = "error" THEN "error"
                   ELSE IF \E k \in 1..Len(rs) : rs[k].status = "warning" THEN "warning"
                   ELSE overallStatus
     IN  /\ results' = rs
         /\ overallStatus' = status
         /\ returned' = ReturnedWorkflow(workflowResult(status, rs))
  /\ pc' = "done"
  /\ UNCHANGED << modules, registrations, op, input, workflowOptions, tasks >>

\* the join waiting for the first listed module only
ParJoin_firstOnly ==
  /\ pc = "join"
  /\ \A k \in 1..Len(tasks) : tasks[k].state # "rejected"
  /\ Len(tasks) > 0 => tasks[1].state = "resolved"
  /\ LET rs == IF Len(tasks) > 0 THEN << tasks[1].value[1] >> ELSE << >>
         status == IF \E k \in 1..Len(rs) : rs[k].status = "error" THEN "error"
                   ELSE IF \E k \in 1..Len(rs) : rs[k].status = "warning" THEN "warning"
                   ELSE overallStatus
     IN  /\ results' = rs
         /\ overallStatus' = status
         /\ returned' = ReturnedWorkflow(workflowResult(status, rs))
  /\ pc' = "done"
  /\ UNCHANGED << modules, registrations, op, input, workflowOptions, tasks >>

\* the join honouring stopOnError: the results end at the first error result
ParJoin_stopOnError ==
  /\ pc = "join"
  /\ \A k \in 1..Len(tasks) : tasks[k].state = "resolved"
  /\ LET moduleResults == [ k \in 1..Len(tasks) |-> tasks[k].value[1] ]
         errors == { k \in 1..Len(tasks) : moduleResults[k].status = "error" }
         last == IF Truthy(workflowOptions.stopOnError) /\ errors # { }
                   THEN CHOOSE k \in errors : \A j \in errors : k <= j
                   ELSE Len(tasks)
         rs == results \o SubSeq(moduleResults, 1, last)
         status == IF \E k \in 1..Len(rs) : rs[k].status = "error" THEN "error"
                   ELSE IF \E k \in 1..Len(rs) : rs[k].status = "warning" THEN "warning"
                   ELSE overallStatus
     IN  /\ results' = rs
         /\ overallStatus' = status
         /\ returned' = ReturnedWorkflow(workflowResult(status, rs))
  /\ pc' = "done"
  /\ UNCHANGED << modules, registrations, op, input, workflowOptions, tasks >>

\* the join deriving the status with a warning taking precedence over an error
ParJoin_warningFirst ==
  /\ pc = "join"
  /\ \A k \in 1..Len(tasks) : tasks[k].state = "resolved"
  /\ LET moduleResults == [ k \in 1..Len(tasks) |-> tasks[k].value[1] ]
         rs == results \o moduleResults
         status == IF \E k \in 1..Len(rs) : rs[k].status = "warning" THEN "warning"
                   ELSE IF \E k \in 1..Len(rs) : rs[k].status = "error" THEN "error"
                   ELSE overallStatus
     IN  /\ results' = rs
         /\ overallStatus' = status
         /\ returned' = ReturnedWorkflow(workflowResult(status, rs))
  /\ pc' = "done"
  /\ UNCHANGED << modules, registrations, op, input, workflowOptions, tasks >>

\* Promise.all fulfilled: every module promise resolved
ParJoin ==
  /\ pc = "join"
  /\ \A k \in 1..Len(tasks) : tasks[k].state = "resolved"
  /\ LET moduleResults == [ k \in 1..Len(tasks) |-> tasks[k].value[1] ]
         rs == results \o moduleResults
         status == IF \E k \in 1..Len(rs) : rs[k].status = "error" THEN "error"
                   ELSE IF \E k \in 1..Len(rs) : rs[k].status = "warning" THEN "warning"
                   ELSE overallStatus
     IN  /\ results' = rs
         /\ overallStatus' = status
         /\ returned' = ReturnedWorkflow(workflowResult(status, rs))
  /\ pc' = "done"
  /\ UNCHANGED << modules, registrations, op, input, workflowOptions, tasks >>

\* the join letting the rejection through to the caller of runWorkflow
ParReject_rethrow ==
  /\ RejectionPending
  /\ overallStatus' = "error"
  /\ returned' = Threw(tasks[CHOOSE k \in 1..Len(tasks) :
                                /\ tasks[k].state = "rejected"
                                /\ \A j \in 1..(k - 1) : tasks[j].state # "rejected"].error[1])
  /\ pc' = "done"
  /\ UNCHANGED << modules, registrations, op, input, workflowOptions, results, tasks >>

\* the catch block of the join without `overallStatus = 'error'`
ParReject_keepsStatus ==
  /\ RejectionPending
  /\ overallStatus' = overallStatus
  /\ returned' = ReturnedWorkflow(workflowResult(overallStatus, results))
  /\ pc' = "done"
  /\ UNCHANGED << modules, registrations, op, input, workflowOptions, results, tasks >>

\* the catch block keeping the results of the module promises that resolved
ParReject_keepsResolved ==
  /\ RejectionPending
  /\ LET settled == SelectSeq(tasks, LAMBDA t : t.state = "resolved")
         rs == results \o [ k \in 1..Len(settled) |-> settled[k].value[1] ]
     IN  /\ results' = rs
         /\ returned' = ReturnedWorkflow(workflowResult("error", rs))
  /\ overallStatus' = "error"
  /\ pc' = "done"
  /\ UNCHANGED << modules, registrations, op, input, workflowOptions, tasks >>

\* Promise.all rejected: some module promise rejected; the catch block
ParReject ==
  /\ RejectionPending
  /\ overallStatus' = "error"
  /\ returned' = ReturnedWorkflow(workflowResult("error", results))
  /\ pc' = "done"
  /\ UNCHANGED << modules, registrations, op, input, workflowOptions, results, tasks >>

----------------------------------------------------------------------------
(* Inputs and specifications *)

MkInput(content) ==
  [ content |-> content, title |-> << >>, author |-> << >>,
    contentType |-> << >>, targetAudience |-> << >> ]

\* contents handed to a module directly: empty, whitespace-only, and real ones
Contents ==
  { << >>, << " " >>, << "\n", "\t" >>, << " ", "\r" >>, << "a" >>, << " ", "a", "\n" >> }

ModuleInputs == { MkInput(c) : c \in Contents }

WorkflowInputs == { MkInput(<< "o", "k" >>), MkInput(<< " " >>) }

OptionsSet ==
  { NoOptions,
    [ customPrompt |-> << "custom prompt" >>, model |-> << >> ],
    [ customPrompt |-> << >>, model |-> << "gpt-3.5-turbo" >> ] }

\* the ids modules are registered under: the first NumIds of the ten
RegIds == { AllModules[k].moduleId : k \in 1..NumIds }

\* index.ts registers the modules one after another in a fixed order, each
\* once: id is the next one to register when the registry holds exactly the
\* modules listed before it
StartupOrder(id) ==
  \E k \in 1..Len(AllModules) :
    /\ AllModules[k].moduleId = id
    /\ DOMAIN modules = { AllModules[j].moduleId : j \in 1..(k - 1) }

\* the ids a caller may name: those, and one that is never registered
CallIds == RegIds \cup { "DoesNotExist" }

ModuleLists == UNION { [1..n -> CallIds] : n \in 0..MaxModules }

Workflows ==
  [ modules     : ModuleLists,
    sequential  : { << >>, << TRUE >>, << FALSE >> },
    stopOnError : { << TRUE >>, << FALSE >> },
    options     : { << >>,
                    [ id \in { AllModules[1].moduleId } |->
                        [ customPrompt |-> << "custom prompt" >>, model |-> << >> ] ] } ]

ProviderMessages == { "timeout" }

Spaces(n) == [ k \in 1..n |-> " " ]

\* completions the Provider gives a module inside controller calls: the status
\* field with each of the three tokens
WorkflowCompletions(id) ==
  LET m == ModuleOf(id)
  IN  { m.statusField \o << " " >> \o m.tokens[a] : a \in 1..3 }

\* what may follow the status field: each token as written, in lower case,
\* with a letter appended, with its last letter missing; another word; nothing
FieldValues(m) ==
  UNION { { m.tokens[a], toLowerCase(m.tokens[a]), m.tokens[a] \o << "E", "D" >>,
            SubSeq(m.tokens[a], 1, Len(m.tokens[a]) - 1) } : a \in 1..3 }
  \cup { UNKNOWN, << >> }

\* a recommendations section as a Provider writes it
RecBlock(m) ==
  m.recSection \o << "\n", "1", ".", " ", "a", " ", "\n", "\n", " ", "b", "\n", "\n" >>

\* what a Provider writes ahead of the recommendations section
Preamble == << "-", " ", "c", "\n" >>

\* completions the Provider gives a module called directly: with or without a
\* recommendations section (and text ahead of it), the status field (as
\* written, in lower case, or missing), some whitespace, and a value
ModuleCompletions(id) ==
  LET m == ModuleOf(id)
  IN  { pre \o field \o Spaces(n) \o value \o post :
          pre   \in { << >>, RecBlock(m), Preamble \o RecBlock(m) },
          field \in { m.statusField, toLowerCase(m.statusField), << >> },
          n     \in 0..MaxSpaces,
          value \in FieldValues(m),
          post  \in { << >>, << "\n" >> } }

InFlight == { k \in 1..Len(tasks) : tasks[k].state = "inflight" }

\* the controller: registration, runModule, runWorkflow
Next ==
  \/ \E id \in RegIds : StartupOrder(id) /\ RegisterModule(id)
  \/ \E id \in CallIds, in \in WorkflowInputs, options \in OptionsSet :
       RunModule(id, in, options)
  \/ \E in \in WorkflowInputs, wo \in Workflows : RunWorkflow(in, wo)
  \/ SeqInvoke
  \/ SeqReturn
  \/ \E k \in InFlight : \E completion \in WorkflowCompletions(tasks[k].moduleId) :
       ProviderResolve(k, completion)
  \/ \E k \in InFlight, providerMessage \in ProviderMessages :
       ProviderFail(k, providerMessage)
  \/ ParJoin
  \/ ParReject

Spec == Init /\ [][Next]_vars

\* the workflows whose termination is examined: every module list, both
\* modes, with and without stopOnError
TerminationWorkflows ==
  { wo \in Workflows : wo.sequential # << >> /\ wo.options = << >> }

\* the completions a Provider gives there: the first and the third token
TerminationCompletions(id) ==
  LET m == ModuleOf(id)
  IN  { m.statusField \o << " " >> \o m.tokens[a] : a \in { 1, 3 } }

\* the Provider answers one of the calls in flight, with a failure or a
\* completion
ProviderResponds ==
  \E k \in InFlight :
    \/ \E providerMessage \in ProviderMessages : ProviderFail(k, providerMessage)
    \/ \E completion \in TerminationCompletions(tasks[k].moduleId) :
         ProviderResolve(k, completion)

\* runWorkflow on its own
NextTermination ==
  \/ \E id \in RegIds : StartupOrder(id) /\ RegisterModule(id)
  \/ \E in \in WorkflowInputs, wo \in TerminationWorkflows : RunWorkflow(in, wo)
  \/ SeqInvoke
  \/ SeqReturn
  \/ ProviderResponds
  \/ ParJoin
  \/ ParReject

\* runWorkflow on an event loop that runs every continuation that is ready,
\* with a Provider that answers every call
SpecTermination ==
  /\ Init /\ [][NextTermination]_vars
  /\ WF_vars(SeqInvoke) /\ WF_vars(SeqReturn)
  /\ WF_vars(ParJoin) /\ WF_vars(ParReject)
  /\ WF_vars(ProviderResponds)

\* one module instance on its own: process called directly
NextModule ==
  \/ \E id \in ModuleIds, in \in ModuleInputs, options \in OptionsSet :
       ProcessCall(id, in, options)
  \/ \E k \in InFlight : \E completion \in ModuleCompletions(tasks[k].moduleId) :
       ProviderResolve(k, completion)
  \/ \E k \in InFlight, providerMessage \in ProviderMessages :
       ProviderFail(k, providerMessage)

SpecModule == Init /\ [][NextModule]_vars

\* what an escaping error says: the Provider's own message, unwrapped, or
\* something the module raised
ProcessErrors == { << p >> : p \in ProviderMessages } \cup { << "process failed" >> }

\* runModule on a controller whose registered instances may let errors escape
NextRunModule ==
  \/ \E id \in RegIds : StartupOrder(id) /\ RegisterModule(id)
  \/ \E id \in CallIds, in \in ModuleInputs, options \in OptionsSet :
       RunModule(id, in, options)
  \/ \E k \in InFlight : \E completion \in WorkflowCompletions(tasks[k].moduleId) :
       ProviderResolve(k, completion)
  \/ \E k \in InFlight, providerMessage \in ProviderMessages :
       ProviderFail(k, providerMessage)
  \/ \E k \in InFlight, message \in ProcessErrors : ProcessReject(k, message)

SpecRunModule == Init /\ [][NextRunModule]_vars

\* the registry on its own: any instances registered in any order, under ids
\* that may repeat, and then read
NextRegistry ==
  \/ \E id \in ModuleIds : RegisterModule(id)
  \/ \E id \in ModuleIds \cup { "DoesNotExist" } : GetModule(id)
  \/ GetAllModules

SpecRegistry == Init /\ [][NextRegistry]_vars

\* the completion the Provider gives a module inside a preset workflow: the
\* status field with the first token
PresetCompletions(id) ==
  LET m == ModuleOf(id)
  IN  { m.statusField \o << " " >> \o m.tokens[1] }

\* the preset workflows of WorkflowManager on the controller index.ts sets up
NextPresets ==
  \/ Startup
  \/ \E name \in PresetNames, in \in WorkflowInputs : RunPreset(name, in)
  \/ SeqInvoke
  \/ SeqReturn
  \/ \E k \in InFlight : \E completion \in PresetCompletions(tasks[k].moduleId) :
       ProviderResolve(k, completion)
  \/ \E k \in InFlight, providerMessage \in ProviderMessages :
       ProviderFail(k, providerMessage)

SpecPresets == Init /\ [][NextPresets]_vars

\* the request bodies of POST /api/module/:moduleId: with or without content
RequestContents == { << >> } \cup { << in >> : in \in ModuleInputs }

\* the HTTP route that runs one module, on a controller set up by index.ts
NextApi ==
  \/ \E id \in RegIds : StartupOrder(id) /\ RegisterModule(id)
  \/ \E id \in CallIds, content \in RequestContents, options \in OptionsSet :
       PostModule(id, content, options)
  \/ \E k \in InFlight : \E completion \in WorkflowCompletions(tasks[k].moduleId) :
       ProviderResolve(k, completion)
  \/ \E k \in InFlight, providerMessage \in ProviderMessages :
       ProviderFail(k, providerMessage)

SpecApi == Init /\ [][NextApi]_vars

----------------------------------------------------------------------------
(* Properties *)

IsWorkflow == op = "runWorkflow"

Sequential == Truthy(workflowOptions.sequential)

StopOnError == Truthy(workflowOptions.stopOnError)

ListLen == Len(workflowOptions.modules)

AllRegistered ==
  \A i \in 1..ListLen : workflowOptions.modules[i] \in DOMAIN modules

\* a per-module call threw (its promise rejected)
SomeCallThrew == \E k \in 1..Len(tasks) : tasks[k].state = "rejected"

\* the worst-of rule: error over warning over success
WorstOf(rs) ==
  IF \E k \in 1..Len(rs) : rs[k].status = "error" THEN "error"
  ELSE IF \E k \in 1..Len(rs) : rs[k].status = "warning" THEN "warning"
  ELSE "success"

\* C1 as stated: whenever runWorkflow has returned, in either mode and for any
\* module list, the returned status is the worst-of over the returned results.
C1_StatusIsWorstOfReturned ==
  (IsWorkflow /\ pc = "done") =>
    returned.workflow[1].status = WorstOf(returned.workflow[1].results)

\* C1 amended: the returned status is the worst-of over the returned results,
\* except that it is error when a per-module call threw in parallel mode or in
\* sequential mode with stopOnError.
C1_StatusIsWorstOfOrForcedError ==
  (IsWorkflow /\ pc = "done") =>
    returned.workflow[1].status =
      IF SomeCallThrew /\ (~Sequential \/ StopOnError)
        THEN "error" ELSE WorstOf(returned.workflow[1].results)

\* a returned workflow whose two results differ in status, error first
C1_Witness ==
  /\ IsWorkflow /\ pc = "done"
  /\ Len(returned.workflow[1].results) = 2
  /\ returned.workflow[1].results[1].status = "error"
  /\ returned.workflow[1].results[2].status = "warning"
  /\ returned.workflow[1].status = "error"

\* C2: in a sequential workflow with stopOnError, an error result is the last
\* thing that happens: it is the last result, no later list entry has been
\* invoked, the results are those of the list prefix ending at it, and the
\* status (running and returned) is error.
C2_StopOnErrorHalts ==
  (IsWorkflow /\ Sequential /\ StopOnError) =>
    \A k \in 1..Len(results) : results[k].status = "error" =>
      /\ k = Len(results)
      /\ Len(tasks) = k
      /\ \A j \in 1..k : /\ tasks[j].entry = j
                         /\ tasks[j].moduleId = workflowOptions.modules[j]
                         /\ tasks[j].value = << results[j] >>
      /\ overallStatus = "error"
      /\ pc \in {"finish", "done"}
      /\ pc = "done" => /\ returned.workflow[1].status = "error"
                        /\ returned.workflow[1].results = results

\* a two-entry list halted after the first entry's error
C2_Witness ==
  /\ IsWorkflow /\ Sequential /\ StopOnError /\ pc = "done"
  /\ ListLen = 2
  /\ Len(tasks) = 1
  /\ Len(returned.workflow[1].results) = 1
  /\ returned.workflow[1].results[1].status = "error"

\* C3: a sequential workflow without stopOnError over registered ids has, when
\* it returns, invoked every list entry exactly once in list order and returns
\* one result per entry, the i-th from the i-th entry.
C3_SequentialRunsAll ==
  (IsWorkflow /\ Sequential /\ ~StopOnError /\ AllRegistered /\ pc = "done") =>
    /\ Len(tasks) = ListLen
    /\ Len(returned.workflow[1].results) = ListLen
    /\ \A i \in 1..ListLen :
         /\ tasks[i].entry = i
         /\ tasks[i].moduleId = workflowOptions.modules[i]
         /\ tasks[i].processCalled
         /\ returned.workflow[1].results[i] = tasks[i].value[1]
         /\ returned.workflow[1].results[i].moduleId = workflowOptions.modules[i]

\* both entries ran although the first one's result was error
C3_Witness ==
  /\ IsWorkflow /\ Sequential /\ ~StopOnError /\ AllRegistered /\ pc = "done"
  /\ ListLen = 2
  /\ Len(returned.workflow[1].results) = 2
  /\ returned.workflow[1].results[1].status = "error"

\* C4 as stated: a parallel workflow invokes every listed module and returns
\* exactly one result per list entry.
C4_ParallelOneResultEach ==
  (IsWorkflow /\ ~Sequential /\ pc = "done") =>
    /\ Len(tasks) = ListLen
    /\ \A i \in 1..ListLen : tasks[i].processCalled
    /\ Len(returned.workflow[1].results) = ListLen
    /\ \A i \in 1..ListLen :
         returned.workflow[1].results[i].moduleId = workflowOptions.modules[i]

\* C4 amended: a parallel workflow invokes every listed module whose id is
\* registered, whatever the other entries do; it returns one result per list
\* entry when every listed id is registered, and no result otherwise.
C4_ParallelRegisteredOneResultEach ==
  (IsWorkflow /\ ~Sequential) =>
    /\ Len(tasks) = ListLen
    /\ \A i \in 1..ListLen :
         /\ tasks[i].moduleId = workflowOptions.modules[i]
         /\ tasks[i].processCalled = (workflowOptions.modules[i] \in DOMAIN modules)
    /\ pc = "done" =>
         IF AllRegistered
           THEN /\ Len(returned.workflow[1].results) = ListLen
                /\ \A i \in 1..ListLen :
                     /\ returned.workflow[1].results[i] = tasks[i].value[1]
                     /\ returned.workflow[1].results[i].moduleId =
                          workflowOptions.modules[i]
           ELSE returned.workflow[1].results = << >>

\* a parallel workflow of two entries returned both results, one of them error
C4_Witness ==
  /\ IsWorkflow /\ ~Sequential /\ pc = "done"
  /\ ListLen = 2
  /\ Len(returned.workflow[1].results) = 2
  /\ returned.workflow[1].results[1].status = "error"
  /\ returned.workflow[1].results[2].status # "error"

\* C5: a workflow whose options omit `sequential` runs like a sequential one:
\* an entry is invoked only after the previous entry's call has settled, and
\* with stopOnError nothing is invoked after an error result.
C5_OmittedSequentialIsSequential ==
  (IsWorkflow /\ workflowOptions.sequential = << >>) =>
    /\ \A k \in 2..Len(tasks) : tasks[k-1].state # "inflight"
    /\ StopOnError =>
         \A k \in 1..(Len(tasks)-1) :
           tasks[k].state = "resolved" => tasks[k].value[1].status # "error"

\* C5's behaviour when `sequential: true` is written out
SequentialIsSequential ==
  (IsWorkflow /\ workflowOptions.sequential = << TRUE >>) =>
    /\ \A k \in 2..Len(tasks) : tasks[k-1].state # "inflight"
    /\ StopOnError =>
         \A k \in 1..(Len(tasks)-1) :
           tasks[k].state = "resolved" => tasks[k].value[1].status # "error"

\* the canonical status of the first, second and third token
Canonical == << "success", "warning", "error" >>

FieldAt(m, text) ==
  { i \in 1..Len(text) : MatchAt(text, i, m.statusField) }

\* the value after the status field: the word that follows its first
\* occurrence and any whitespace
FieldValue(m, text) ==
  LET i == CHOOSE h \in FieldAt(m, text) : \A g \in FieldAt(m, text) : h <= g
      j == SkipSpaces(text, i + Len(m.statusField))
      e == CHOOSE x \in j..(Len(text)+1) :
             /\ \A y \in j..(x-1) : ~IsSpace(text[y])
             /\ (x = Len(text)+1 \/ IsSpace(text[x]))
  IN  SubSeq(text, j, e-1)

\* the status field of the text carries the module's a-th token, in any case
Carries(m, text, a) ==
  /\ FieldAt(m, text) # {}
  /\ toUpperCase(FieldValue(m, text)) = m.tokens[a]

\* the calls that got a completion from the Provider
Completed ==
  { k \in 1..Len(tasks) :
      tasks[k].response # << >> /\ tasks[k].response[1].kind = "completion" }

\* C6: a completion whose status field carries the module's first, second or
\* third token gives status success, warning or error, for each of the ten
\* modules and in any letter case.
C6_TokenMapsToStatus ==
  \A k \in Completed :
    LET m    == ModuleOf(tasks[k].moduleId)
        text == tasks[k].response[1].text
    IN  \A a \in 1..3 :
          Carries(m, text, a) => tasks[k].value[1].status = Canonical[a]

\* C7: a completion without the status field, or whose value after the field
\* is not exactly one of the three tokens, gives status warning.
C7_UnknownTokenIsWarning ==
  \A k \in Completed :
    LET m    == ModuleOf(tasks[k].moduleId)
        text == tasks[k].response[1].text
    IN  (\A a \in 1..3 : ~Carries(m, text, a)) =>
          tasks[k].value[1].status = "warning"

Whitespace == { " ", "\t", "\n", "\r" }

ProviderCallCount == Cardinality({ k \in 1..Len(tasks) : tasks[k].request # << >> })

\* C8: process called with empty or whitespace-only content returns at once a
\* result with status error and a report starting with 'Invalid input', and
\* the Provider is never called.
C8_InvalidInputNeverReachesProvider ==
  ( /\ op = "process"
    /\ \A i \in 1..Len(input.content) : input.content[i] \in Whitespace ) =>
    /\ pc = "done"
    /\ ProviderCallCount = 0
    /\ returned.kind = "moduleResult"
    /\ returned.result[1].moduleId = tasks[1].moduleId
    /\ returned.result[1].status = "error"
    /\ Head(returned.result[1].report) = "Invalid input"

\* process was called with whitespace-only content that is not empty
C8_Witness ==
  /\ op = "process" /\ pc = "done"
  /\ Len(input.content) = 2
  /\ \A i \in 1..Len(input.content) : input.content[i] \in Whitespace
  /\ returned.result[1].status = "error"

\* C9: process never throws; when the Provider call fails it resolves to a
\* result with status error, a report that embeds the failure message, and
\* exactly the two recommended fixes (retry, check connectivity).
C9_FailureBecomesErrorResult ==
  op = "process" =>
    /\ returned.kind # "error"
    /\ \A k \in 1..Len(tasks) :
         /\ tasks[k].state # "rejected"
         /\ (tasks[k].response # << >> /\ tasks[k].response[1].kind = "failure") =>
              LET m == ModuleOf(tasks[k].moduleId)
                  r == tasks[k].value[1]
              IN  /\ tasks[k].state = "resolved"
                  /\ returned = ReturnedResult(r)
                  /\ r.status = "error"
                  /\ \E i \in 1..Len(r.report) :
                       r.report[i] = tasks[k].response[1].text[1]
                  /\ r.recommendedFixes =
                       << << << m.retryFix >>, << "Check API connectivity" >> >> >>

\* a Provider call failed and process has returned
C9_Witness ==
  /\ op = "process" /\ pc = "done"
  /\ tasks[1].response # << >>
  /\ tasks[1].response[1].kind = "failure"
  /\ returned.kind = "moduleResult"

\* C10: runModule with an id that is not registered rejects with 'Module <id>
\* not found'; no ModuleResult is produced and no module is invoked.
C10_UnknownModuleRejects ==
  (op = "runModule" /\ tasks[1].moduleId \notin DOMAIN modules) =>
    /\ pc = "done"
    /\ returned.kind = "error"
    /\ returned.error = << << "Module ", tasks[1].moduleId, " not found" >> >>
    /\ returned.result = << >>
    /\ \A k \in 1..Len(tasks) :
         /\ ~tasks[k].processCalled
         /\ tasks[k].request = << >>
         /\ tasks[k].value = << >>

\* runModule rejected although the registry holds other modules
C10_Witness ==
  /\ op = "runModule" /\ pc = "done"
  /\ returned.kind = "error"
  /\ tasks[1].moduleId = "DoesNotExist"
  /\ DOMAIN modules # {}

\* C11: runModule with a registered id never rejects: whatever process does
\* (a completion, a wrapped Provider failure, an escaping error), the call
\* ends with a result; when process rejected, the result has that moduleId,
\* status error and a report carrying the exception message.
C11_RunModuleNeverRejects ==
  (op = "runModule" /\ tasks[1].moduleId \in DOMAIN modules) =>
    /\ returned.kind # "error"
    /\ pc = "done" => returned.kind = "moduleResult"
    /\ (tasks[1].response # << >> /\ tasks[1].response[1].kind = "rejection") =>
         /\ returned.kind = "moduleResult"
         /\ LET r == returned.result[1]
                message == tasks[1].response[1].text
            IN  /\ r.moduleId = tasks[1].moduleId
                /\ r.status = "error"
                /\ r.report = << "Error running module: " >> \o message

\* the process of a registered module rejected with a raw Provider message
\* and runModule resolved
C11_Witness ==
  /\ op = "runModule" /\ pc = "done"
  /\ tasks[1].moduleId \in DOMAIN modules
  /\ tasks[1].response # << >>
  /\ tasks[1].response[1].kind = "rejection"
  /\ tasks[1].response[1].text = << "timeout" >>
  /\ returned.kind = "moduleResult"

\* C12 as stated: a runWorkflow call whose module list contains an id that is
\* not registered rejects with the 'module not found' error instead of
\* returning a WorkflowResult.
C12_UnknownModuleRejectsWorkflow ==
  (IsWorkflow /\ pc = "done" /\ ~AllRegistered) =>
    /\ returned.kind = "error"
    /\ \E i \in 1..ListLen :
         returned.error = << << "Module ", workflowOptions.modules[i], " not found" >> >>

\* C12 amended: the unknown-module failure propagates to runWorkflow's own
\* catch blocks and no further: the per-module call for an unregistered id
\* rejects with 'Module <id> not found', and runWorkflow returns a
\* WorkflowResult holding no result for that id; the status is error in
\* parallel mode (with an empty results list) and, once such a call was made,
\* in sequential mode with stopOnError.
C12_UnknownModuleAbsorbedByWorkflow ==
  (IsWorkflow /\ ~AllRegistered) =>
    /\ returned.kind # "error"
    /\ \A k \in 1..Len(tasks) :
         tasks[k].moduleId \notin DOMAIN modules =>
           /\ tasks[k].state = "rejected"
           /\ tasks[k].error = << << "Module ", tasks[k].moduleId, " not found" >> >>
    /\ pc = "done" =>
         /\ returned.kind = "workflowResult"
         /\ LET w == returned.workflow[1]
            IN  /\ \A i \in 1..Len(w.results) : w.results[i].moduleId \in DOMAIN modules
                /\ ~Sequential => (w.status = "error" /\ w.results = << >>)
                /\ (Sequential /\ StopOnError /\ SomeCallThrew) => w.status = "error"

\* a parallel workflow naming a registered and an unregistered id has returned
C12_Witness ==
  /\ IsWorkflow /\ pc = "done" /\ ~Sequential
  /\ ListLen = 2
  /\ workflowOptions.modules[1] \in DOMAIN modules
  /\ workflowOptions.modules[2] \notin DOMAIN modules
  /\ returned.kind = "workflowResult"
  /\ returned.workflow[1].status = "error"

\* C13: in parallel mode, when a module task rejects and the dispatch as a
\* whole fails, runWorkflow does not reject: it returns a WorkflowResult whose
\* status is error.
C13_ParallelFailureReturnsError ==
  (IsWorkflow /\ ~Sequential /\ SomeCallThrew) =>
    /\ returned.kind \in { "none", "workflowResult" }
    /\ pc = "done" =>
         /\ returned.kind = "workflowResult"
         /\ returned.workflow[1].status = "error"
         /\ overallStatus = "error"

\* a parallel dispatch failed on an unregistered id while the call of a
\* registered module was still waiting for the Provider
C13_Witness ==
  /\ IsWorkflow /\ ~Sequential /\ pc = "done"
  /\ \E k, j \in 1..Len(tasks) :
       tasks[k].state = "rejected" /\ tasks[j].state = "inflight"
  /\ returned.kind = "workflowResult"
  /\ returned.workflow[1].status = "error"

\* the per-module calls that produced a result, in list order and in the
\* order in which they completed
ResolvedInListOrder ==
  SelectSeq([ k \in 1..Len(tasks) |-> k ], LAMBDA k : tasks[k].state = "resolved")

ResolvedInCompletionOrder ==
  LET R == { k \in 1..Len(tasks) : tasks[k].state = "resolved" }
  IN  [ i \in 1..Cardinality(R) |->
          CHOOSE k \in R :
            Cardinality({ j \in R : tasks[j].settledAt[1] < tasks[k].settledAt[1] }) = i - 1 ]

\* C14 as stated: in sequential and in parallel mode the returned results are
\* the module results in the order in which the module calls completed.
C14_ResultsInCompletionOrder ==
  (IsWorkflow /\ pc = "done" /\ returned.workflow[1].results # << >>) =>
    returned.workflow[1].results =
      [ i \in 1..Len(ResolvedInCompletionOrder) |->
          tasks[ResolvedInCompletionOrder[i]].value[1] ]

\* C14 amended: the returned results are the module results in module-list
\* order; in sequential mode that is also the order in which the calls
\* completed, in parallel mode it is the list order whatever order the calls
\* completed in.
C14_ResultsInListOrder ==
  (IsWorkflow /\ pc = "done" /\ returned.workflow[1].results # << >>) =>
    /\ returned.workflow[1].results =
         [ i \in 1..Len(ResolvedInListOrder) |-> tasks[ResolvedInListOrder[i]].value[1] ]
    /\ Sequential => ResolvedInListOrder = ResolvedInCompletionOrder

\* a parallel workflow of two different modules returned after the second
\* module's call completed first
C14_Witness ==
  /\ IsWorkflow /\ pc = "done" /\ ~Sequential
  /\ Len(tasks) = 2
  /\ tasks[1].state = "resolved" /\ tasks[2].state = "resolved"
  /\ tasks[2].settledAt[1] < tasks[1].settledAt[1]
  /\ Len(returned.workflow[1].results) = 2
  /\ returned.workflow[1].results[1].moduleId = workflowOptions.modules[1]
  /\ returned.workflow[1].results[2].moduleId = workflowOptions.modules[2]
  /\ workflowOptions.modules[1] # workflowOptions.modules[2]

\* the literal lit stands in s at position i, letter for letter
ExactAt(s, i, lit) ==
  /\ i >= 1
  /\ i + Len(lit) - 1 <= Len(s)
  /\ SubSeq(s, i, i + Len(lit) - 1) = lit

\* the text has a first marker and, somewhere after it, a second marker
HasBlock(text, first, second) ==
  \E i, e \in 1..Len(text) :
    ExactAt(text, i, first) /\ e >= i + Len(first) /\ ExactAt(text, e, second)

\* the text between the first occurrence of the first marker and the next
\* occurrence of the second marker after it
Between(text, first, second) ==
  LET i == CHOOSE h \in 1..Len(text) :
             ExactAt(text, h, first) /\ \A g \in 1..(h - 1) : ~ExactAt(text, g, first)
      e == CHOOSE x \in (i + Len(first))..Len(text) :
             /\ ExactAt(text, x, second)
             /\ \A y \in (i + Len(first))..(x - 1) : ~ExactAt(text, y, second)
  IN  SubSeq(text, i + Len(first), e - 1)

\* the lines of a text, each trimmed, the empty ones left out
TrimmedNonEmptyLines(text) ==
  LET lines == split(text)
  IN  SelectSeq([ k \in 1..Len(lines) |-> trim(lines[k]) ], LAMBDA l : Len(l) > 0)

TemplateOf(k) ==
  IF tasks[k].options.customPrompt # << >>
    THEN tasks[k].options.customPrompt[1]
    ELSE ModuleOf(tasks[k].moduleId).defaultPrompt

\* C16 as stated: for every module call that got its completion,
\* metadata.promptUsed is the literal prompt passed to generateCompletion.
C16_PromptUsedIsLiteralPrompt ==
  \A k \in Completed :
    tasks[k].value[1].metadata.promptUsed = tasks[k].request[1].prompt

\* C16 amended: metadata.promptUsed is the prompt template of the call (the
\* custom prompt when given, else the module's default prompt); the literal
\* prompt passed to generateCompletion is that template followed by the
\* rendered content block, so the two are never the same string.
C16_PromptUsedIsTemplate ==
  \A k \in Completed :
    LET promptUsed == tasks[k].value[1].metadata.promptUsed
        prompt     == tasks[k].request[1].prompt
    IN  /\ promptUsed = << TemplateOf(k) >>
        /\ SubSeq(prompt, 1, 2) = << "\n" >> \o promptUsed
        /\ Len(prompt) > 2
        /\ \E i \in 3..Len(prompt) :
             SubSeq(prompt, i, i + Len(input.content) - 1) = input.content

\* a call with a custom prompt got its completion and came out a success
C16_Witness ==
  \E k \in Completed :
    /\ tasks[k].options.customPrompt = << "custom prompt" >>
    /\ tasks[k].value[1].status = "success"
    /\ tasks[k].value[1].metadata.promptUsed = << "custom prompt" >>
    /\ tasks[k].request[1].prompt # << "custom prompt" >>

\* the calls that reached the Provider and have resolved
Answered ==
  { k \in 1..Len(tasks) : tasks[k].request # << >> /\ tasks[k].value # << >> }

\* C17: for every module call that reaches the Provider, metadata.modelVersion
\* is the model name that was passed to generateCompletion for that call,
\* both when options.model is given and when it is omitted.
C17_ModelVersionIsModelUsed ==
  \A k \in Answered :
    tasks[k].value[1].metadata.modelVersion = tasks[k].request[1].options.model

\* with options.model given, the recorded and the requested model agree
GivenModelIsRecorded ==
  \A k \in Answered :
    tasks[k].options.model # << >> =>
      /\ tasks[k].value[1].metadata.modelVersion = tasks[k].options.model[1]
      /\ tasks[k].request[1].options.model = tasks[k].options.model[1]

\* the instance most recently handed to registerModule under id
LastRegistered(id) ==
  CHOOSE n \in 1..Len(registrations) :
    /\ registrations[n] = id
    /\ \A j \in (n + 1)..Len(registrations) : registrations[j] # id

RegisteredIds == { registrations[n] : n \in 1..Len(registrations) }

\* C18: after any sequence of registerModule calls no registration has
\* failed, and the registry holds exactly one module per distinct id, the
\* instance most recently registered under it: getModule(id) returns that
\* instance (undefined for an id never registered) and getAllModules has one
\* entry per distinct id.
C18_LastRegistrationWins ==
  /\ returned.kind # "error"
  /\ DOMAIN modules = RegisteredIds
  /\ \A id \in ModuleIds \cup { "DoesNotExist" } :
       getModule(id) = IF id \in RegisteredIds
                         THEN << [ moduleId |-> id, instance |-> LastRegistered(id) ] >>
                         ELSE << >>
  /\ Len(getAllModules) = Cardinality(RegisteredIds)
  /\ \A i \in 1..Len(getAllModules) :
       /\ getAllModules[i].moduleId \in RegisteredIds
       /\ getAllModules[i].instance = LastRegistered(getAllModules[i].moduleId)
       /\ \A j \in 1..Len(getAllModules) :
            getAllModules[i].moduleId = getAllModules[j].moduleId => i = j
  /\ op = "getModule" =>
       /\ returned.kind = "module"
       /\ \E id \in ModuleIds \cup { "DoesNotExist" } : returned.result = getModule(id)
  /\ op = "getAllModules" =>
       /\ returned.kind = "modules"
       /\ returned.result = << getAllModules >>

\* an id was registered twice and getModule returned the second instance
C18_Witness ==
  /\ op = "getModule"
  /\ Len(registrations) = 2
  /\ registrations[1] = registrations[2]
  /\ returned.result = << [ moduleId |-> registrations[2], instance |-> 2 ] >>

\* how many of the results have the given status, counted one by one
RECURSIVE Tally(_, _)
Tally(rs, status) ==
  IF Len(rs) = 0 THEN 0
  ELSE (IF Head(rs).status = status THEN 1 ELSE 0) + Tally(Tail(rs), status)

\* C19: the summary's header reports results.length as the number of modules
\* processed, its Success, Warning and Error counts are the numbers of
\* returned results with each status, and the three counts sum to
\* results.length.
C19_SummaryCountsResults ==
  (IsWorkflow /\ pc = "done") =>
    LET rs      == returned.workflow[1].results
        summary == returned.workflow[1].summary
    IN  /\ summary.totalModules = Len(rs)
        /\ summary.successCount = Tally(rs, "success")
        /\ summary.warningCount = Tally(rs, "warning")
        /\ summary.errorCount = Tally(rs, "error")
        /\ summary.successCount + summary.warningCount + summary.errorCount = Len(rs)

\* a sequential workflow of two modules, the first a success and the second a
\* warning: 'Success: 1' and 'Warning: 1'
C19_Witness ==
  /\ IsWorkflow /\ pc = "done" /\ Sequential /\ ~StopOnError
  /\ Len(returned.workflow[1].results) = 2
  /\ returned.workflow[1].results[1].status = "success"
  /\ returned.workflow[1].results[2].status = "warning"
  /\ returned.workflow[1].status = "warning"
  /\ returned.workflow[1].summary.successCount = 1
  /\ returned.workflow[1].summary.warningCount = 1
  /\ returned.workflow[1].summary.errorCount = 0

\* C20: each preset workflow hands the controller exactly its fixed module
\* list, with sequential=true and stopOnError=false: comprehensive all ten
\* ids, the four others the three or four ids named; and every id of every
\* preset is one of the ten ids registered at startup, so that after startup
\* no per-module call of a preset fails for an unknown id.
C20_PresetsHandOverFixedLists ==
  /\ \A name \in PresetNames :
       /\ PresetOptions(name).sequential = << TRUE >>
       /\ PresetOptions(name).stopOnError = << FALSE >>
       /\ \A i \in 1..Len(PresetOptions(name).modules) :
            PresetOptions(name).modules[i] \in ModuleIds
  /\ Len(PresetOptions("runComprehensiveAnalysis").modules) = 10
  /\ { PresetOptions("runComprehensiveAnalysis").modules[i] : i \in 1..10 } = ModuleIds
  /\ PresetOptions("runFactualIntegrityWorkflow").modules =
       << "FactCheckLayer", "HallucinationFilter", "PromptTraceability" >>
  /\ PresetOptions("runEthicalReviewWorkflow").modules =
       << "EthicalGuardian", "ToneAndAudienceModulator", "PromptTraceability" >>
  /\ PresetOptions("runReaderExperienceWorkflow").modules =
       << "ToneAndAudienceModulator", "PlotLogicBuilder", "SimulatedFeedbackReader",
          "PromptTraceability" >>
  /\ PresetOptions("runPublicationPrepWorkflow").modules =
       << "WYSIWYGLayoutPreview", "ChapterImageGallery", "SmartExportEngine",
          "PromptTraceability" >>
  /\ IsWorkflow =>
       /\ \E name \in PresetNames : workflowOptions = PresetOptions(name)
       /\ Sequential /\ ~StopOnError
       /\ DOMAIN modules = ModuleIds =>
            /\ \A k \in 1..Len(tasks) :
                 /\ tasks[k].state # "rejected"
                 /\ tasks[k].moduleId = workflowOptions.modules[k]
            /\ pc = "done" =>
                 [ i \in 1..Len(returned.workflow[1].results) |->
                     returned.workflow[1].results[i].moduleId ] = workflowOptions.modules

\* the publication-prep preset ran on the started-up controller and returned
\* one result for each of its four modules
C20_Witness ==
  /\ IsWorkflow /\ pc = "done"
  /\ DOMAIN modules = ModuleIds
  /\ workflowOptions.modules =
       << "WYSIWYGLayoutPreview", "ChapterImageGallery", "SmartExportEngine",
          "PromptTraceability" >>
  /\ workflowOptions.sequential = << TRUE >>
  /\ workflowOptions.stopOnError = << FALSE >>
  /\ Len(returned.workflow[1].results) = 4

\* C21: POST /api/module/:moduleId with valid content and an id that is not
\* registered is answered with 404 Not Found and an error naming the module,
\* 'Module <id> not found'.
C21_UnknownModuleIs404 ==
  (op = "postModule" /\ pc = "done" /\ tasks # << >>
     /\ tasks[1].moduleId \notin DOMAIN modules) =>
    /\ returned.result[1].status = 404
    /\ returned.result[1].body.error = << << "Module ", tasks[1].moduleId, " not found" >> >>

\* what the route answers instead: 500 with a generic error and the message
UnknownModuleIs500 ==
  (op = "postModule" /\ pc = "done" /\ tasks # << >>
     /\ tasks[1].moduleId \notin DOMAIN modules) =>
    /\ returned.result[1].status = 500
    /\ returned.result[1].body.error = << "Error running module" >>
    /\ returned.result[1].body.message =
         << << "Module ", tasks[1].moduleId, " not found" >> >>

\* C22: in sequential mode, when the per-module call throws for a list entry,
\* the workflow's status becomes error whether or not stopOnError is set, no
\* result is appended for that entry, and the loop halts if stopOnError.
C22_SequentialThrowIsError ==
  (IsWorkflow /\ Sequential /\ pc = "done" /\ SomeCallThrew) =>
    /\ returned.workflow[1].status = "error"
    /\ Len(returned.workflow[1].results) =
         Cardinality({ k \in 1..Len(tasks) : tasks[k].state = "resolved" })
    /\ StopOnError => tasks[Len(tasks)].state = "rejected"

\* the parts of it the sequential catch block does keep: no result for the
\* entry, and with stopOnError the status error and the halt
SequentialThrowSkipsEntry ==
  (IsWorkflow /\ Sequential /\ pc = "done" /\ SomeCallThrew) =>
    /\ Len(returned.workflow[1].results) =
         Cardinality({ k \in 1..Len(tasks) : tasks[k].state = "resolved" })
    /\ StopOnError =>
         /\ tasks[Len(tasks)].state = "rejected"
         /\ returned.workflow[1].status = "error"

\* C23: in sequential mode with stopOnError=false neither an error result nor
\* an exception thrown for a list entry aborts the workflow: when it returns,
\* every list entry has been invoked, in list order, and the results are
\* those of the registered entries, one each.
C23_NoAbortWithoutStopOnError ==
  (IsWorkflow /\ Sequential /\ ~StopOnError /\ pc = "done") =>
    /\ Len(tasks) = ListLen
    /\ \A k \in 1..ListLen :
         /\ tasks[k].moduleId = workflowOptions.modules[k]
         /\ tasks[k].moduleId \in DOMAIN modules =>
              tasks[k].processCalled /\ tasks[k].state = "resolved"
    /\ returned.workflow[1].results =
         [ i \in 1..Len(ResolvedInListOrder) |-> tasks[ResolvedInListOrder[i]].value[1] ]
    /\ Len(returned.workflow[1].results) =
         Cardinality({ k \in 1..ListLen : workflowOptions.modules[k] \in DOMAIN modules })

\* the call for the first entry threw, the second entry was still invoked and
\* its result, an error, is the one returned
C23_Witness ==
  /\ IsWorkflow /\ Sequential /\ ~StopOnError /\ pc = "done"
  /\ ListLen = 2
  /\ tasks[1].state = "rejected"
  /\ tasks[2].state = "resolved"
  /\ Len(returned.workflow[1].results) = 1
  /\ returned.workflow[1].results[1].status = "error"

\* C24: within a sequential workflow at most one Provider call is in flight
\* at any moment, and the module of a list entry is invoked only after the
\* call for every earlier entry has ended and its result, if it returned one,
\* has been appended to results.
C24_SequentialOneInFlight ==
  (IsWorkflow /\ Sequential) =>
    /\ Cardinality(InFlight) <= 1
    /\ \A k \in 1..Len(tasks) :
         /\ tasks[k].moduleId = workflowOptions.modules[k]
         /\ k < Len(tasks) => tasks[k].state # "inflight"
    /\ results =
         [ i \in 1..Len(ResolvedInListOrder) |-> tasks[ResolvedInListOrder[i]].value[1] ]

\* the second entry's Provider call is in flight; the first entry's result is
\* in results
C24_Witness ==
  /\ IsWorkflow /\ Sequential /\ pc = "await"
  /\ Len(tasks) = 2
  /\ tasks[1].state = "resolved"
  /\ tasks[2].state = "inflight"
  /\ results = << tasks[1].value[1] >>

\* C25 as stated: in parallel mode runWorkflow returns only after every
\* dispatched module call has completed, for every module list, including
\* lists in which some call fails.
C25_ParallelJoinAll ==
  (IsWorkflow /\ ~Sequential /\ pc = "done") => InFlight = { }

\* C25 amended: every list entry is dispatched; when no dispatched call
\* rejects, runWorkflow returns only after every call has completed, whatever
\* the status of the results; when a call rejects (an unregistered id) it
\* returns status error with no results, without waiting for the calls still
\* in flight.
C25_ParallelJoinAllUnlessRejected ==
  (IsWorkflow /\ ~Sequential) =>
    /\ Len(tasks) = ListLen
    /\ (pc = "done" /\ ~SomeCallThrew) =>
         /\ InFlight = { }
         /\ \A k \in 1..ListLen : tasks[k].state = "resolved"
         /\ Len(returned.workflow[1].results) = ListLen
    /\ (pc = "done" /\ SomeCallThrew) =>
         /\ returned.workflow[1].status = "error"
         /\ returned.workflow[1].results = << >>

\* a parallel workflow returned after both calls completed, the first one
\* with a Provider failure
C25_Witness ==
  /\ IsWorkflow /\ ~Sequential /\ pc = "done"
  /\ ListLen = 2 /\ InFlight = { }
  /\ tasks[1].response # << >> /\ tasks[1].response[1].kind = "failure"
  /\ tasks[2].response # << >> /\ tasks[2].response[1].kind = "completion"
  /\ Len(returned.workflow[1].results) = 2

\* the indexes of the warning and error results of rs
NonSuccess(rs) == { k \in 1..Len(rs) : rs[k].status # "success" }

\* the index in rs of its j-th warning or error result
NonSuccessAt(rs, j) ==
  CHOOSE k \in NonSuccess(rs) : Cardinality({ i \in NonSuccess(rs) : i <= k }) = j

\* text is the report up to its first line break
IsFirstLine(text, report) ==
  /\ Len(text) <= Len(report)
  /\ \A k \in 1..Len(text) : text[k] = report[k] /\ text[k] # "\n"
  /\ Len(text) < Len(report) => report[Len(text) + 1] = "\n"

\* line is the '[STATUS] moduleId: <first line of report>' line of result r
IsIssueLineOf(line, r) ==
  /\ line.status = statusUpper(r.status)
  /\ line.moduleId = r.moduleId
  /\ IsFirstLine(line.text, r.report)

\* the summary's issues block exists exactly when a returned result is a
\* warning or an error, and has one line per such result, in result order
IssuesBlockListsNonSuccess(rs, summary) ==
  /\ summary.issues # << >> <=> NonSuccess(rs) # { }
  /\ summary.issues # << >> =>
       /\ Len(summary.issues[1]) = Cardinality(NonSuccess(rs))
       /\ \A j \in 1..Len(summary.issues[1]) :
            IsIssueLineOf(summary.issues[1][j], rs[NonSuccessAt(rs, j)])

\* the recommended fixes result r carries
FixesOf(r) == IF r.recommendedFixes = << >> THEN << >> ELSE r.recommendedFixes[1]

\* C26 as stated: the summary has an 'Issues found' block if and only if a
\* returned result is warning or error; the block has one
\* '[STATUS] moduleId: <first line of report>' line per non-success result, in
\* result order, and every such line is followed by a note with the number of
\* recommended fixes of that result.
C26_EveryIssueHasFixesNote ==
  (IsWorkflow /\ pc = "done") =>
    LET rs      == returned.workflow[1].results
        summary == returned.workflow[1].summary
    IN  /\ IssuesBlockListsNonSuccess(rs, summary)
        /\ summary.issues # << >> =>
             \A j \in 1..Len(summary.issues[1]) :
               summary.issues[1][j].fixes = << Len(FixesOf(rs[NonSuccessAt(rs, j)])) >>

\* C26 amended: the block and its lines are as stated; a line is followed by
\* the note with the number of recommended fixes exactly when its result
\* carries at least one recommended fix, and by nothing otherwise.
C26_FixesNoteOnlyWhenFixes ==
  (IsWorkflow /\ pc = "done") =>
    LET rs      == returned.workflow[1].results
        summary == returned.workflow[1].summary
    IN  /\ IssuesBlockListsNonSuccess(rs, summary)
        /\ summary.issues # << >> =>
             \A j \in 1..Len(summary.issues[1]) :
               LET n == Len(FixesOf(rs[NonSuccessAt(rs, j)]))
               IN  summary.issues[1][j].fixes = IF n > 0 THEN << n >> ELSE << >>

\* a workflow of two modules: the first call met a Provider failure (an error
\* result with two fixes, so a note), the second completed with the warning
\* token and no recommendations section (no fixes, so no note)
C26_Witness ==
  /\ IsWorkflow /\ pc = "done"
  /\ Len(returned.workflow[1].results) = 2
  /\ returned.workflow[1].results[1].status = "error"
  /\ returned.workflow[1].results[2].status = "warning"
  /\ returned.workflow[1].results[2].recommendedFixes = << >>
  /\ returned.workflow[1].summary.issues # << >>
  /\ Len(returned.workflow[1].summary.issues[1]) = 2
  /\ returned.workflow[1].summary.issues[1][1].fixes = << 2 >>
  /\ returned.workflow[1].summary.issues[1][2].fixes = << >>

\* C27: in parallel mode, when a listed id is unregistered, the returned
\* results list is empty and the summary reports 0 modules processed, although
\* a call was made for every list entry and the process of every registered
\* listed module was invoked.
C27_UnregisteredDiscardsAllResults ==
  (IsWorkflow /\ ~Sequential /\ ~AllRegistered /\ pc = "done") =>
    /\ returned.workflow[1].results = << >>
    /\ returned.workflow[1].summary.totalModules = 0
    /\ returned.workflow[1].summary.issues = << >>
    /\ Len(tasks) = ListLen
    /\ \A k \in 1..ListLen :
         /\ tasks[k].moduleId = workflowOptions.modules[k]
         /\ tasks[k].moduleId \in DOMAIN modules => tasks[k].processCalled

\* a parallel workflow listing a registered module and an unregistered id
\* returned; the registered module's process was invoked and its call
\* produced a result, which the returned list does not hold
C27_Witness ==
  /\ IsWorkflow /\ ~Sequential /\ pc = "done"
  /\ \E k \in 1..Len(tasks) : tasks[k].state = "rejected"
  /\ \E k \in 1..Len(tasks) : tasks[k].state = "resolved" /\ tasks[k].processCalled
  /\ returned.workflow[1].results = << >>
  /\ returned.workflow[1].summary.totalModules = 0

\* C28: in parallel mode with stopOnError and every listed id registered, the
\* process of every listed module is invoked, and the returned results hold
\* the result of every listed module, those after an error result included.
C28_ParallelIgnoresStopOnError ==
  (IsWorkflow /\ ~Sequential /\ StopOnError /\ AllRegistered) =>
    /\ Len(tasks) = ListLen
    /\ \A k \in 1..ListLen :
         tasks[k].moduleId = workflowOptions.modules[k] /\ tasks[k].processCalled
    /\ pc = "done" =>
         /\ Len(returned.workflow[1].results) = ListLen
         /\ \A k \in 1..ListLen :
              /\ tasks[k].value = << returned.workflow[1].results[k] >>
              /\ returned.workflow[1].results[k].moduleId = workflowOptions.modules[k]

\* a parallel workflow with stopOnError whose first module yielded an error
\* and whose second module, answered by the Provider after that, a success
C28_Witness ==
  /\ IsWorkflow /\ ~Sequential /\ StopOnError /\ pc = "done"
  /\ ListLen = 2
  /\ tasks[1].settledAt = << 1 >> /\ tasks[2].settledAt = << 2 >>
  /\ tasks[2].response # << >>
  /\ Len(returned.workflow[1].results) = 2
  /\ returned.workflow[1].results[1].status = "error"
  /\ returned.workflow[1].results[2].status = "success"
  /\ returned.workflow[1].status = "error"

\* the result the module of list entry k gives for what happened to its call:
\* an invalid input, a completion of the Provider, or a Provider failure
OutcomeOf(k) ==
  LET id      == workflowOptions.modules[k]
      m       == ModuleOf(id)
      options == moduleOptionsOf(workflowOptions, id)
      t       == tasks[k]
  IN  IF t.response = << >> THEN processInvalid(m, options)
      ELSE IF t.response[1].kind = "completion"
             THEN processCompletion(m, options, t.response[1].text)
             ELSE processFailure(m, options,
                                 generateCompletionError(t.response[1].text[1]))

\* C29: for a list of registered ids, a parallel workflow and a sequential
\* workflow without stopOnError return the same thing for the same outcomes
\* of the per-module calls: what is returned is determined by the list and the
\* outcome of each entry's call alone (the results in list order, the worst
\* status among them, and the summary of these results), whatever the mode
\* and whatever the order in which the calls completed.
C29_ModesReturnTheSame ==
  (IsWorkflow /\ AllRegistered /\ pc = "done" /\ (~Sequential \/ ~StopOnError)) =>
    /\ Len(tasks) = ListLen
    /\ \A k \in 1..ListLen : tasks[k].entry = k /\ tasks[k].state = "resolved"
    /\ LET rs == [ k \in 1..ListLen |-> OutcomeOf(k) ]
       IN  /\ returned.workflow[1].results = rs
           /\ returned.workflow[1].status = WorstOf(rs)
           /\ returned.workflow[1].summary = generateWorkflowSummary(rs)

\* a parallel workflow of two modules in which the second call completed
\* first, with a warning, and the first call then met a Provider failure: the
\* results are in list order and the status is error, as in a sequential run
C29_Witness ==
  /\ IsWorkflow /\ ~Sequential /\ AllRegistered /\ pc = "done"
  /\ ListLen = 2
  /\ tasks[2].settledAt = << 1 >> /\ tasks[1].settledAt = << 2 >>
  /\ tasks[1].response # << >> /\ tasks[1].response[1].kind = "failure"
  /\ tasks[2].response # << >> /\ tasks[2].response[1].kind = "completion"
  /\ returned.workflow[1].results[1].status = "error"
  /\ returned.workflow[1].results[2].status = "warning"
  /\ returned.workflow[1].status = "error"

\* one call per list entry so far, each for the id of its entry: no entry's
\* module has been invoked twice
AtMostOncePerEntry ==
  /\ Len(tasks) <= ListLen
  /\ \A k \in 1..Len(tasks) :
       tasks[k].entry = k /\ tasks[k].moduleId = workflowOptions.modules[k]

\* C30: when the Provider answers every call (with a completion or a
\* failure), every runWorkflow call eventually returns a WorkflowResult, in
\* both modes and for every module list, having invoked a module's process at
\* most once per list entry.
C30_WorkflowTerminates ==
  IsWorkflow ~> (pc = "done" /\ returned.kind = "workflowResult" /\ AtMostOncePerEntry)

\* a sequential workflow without stopOnError returned after one call per
\* entry: the Provider failed the first call and completed the second
C30_Witness ==
  /\ IsWorkflow /\ Sequential /\ ~StopOnError /\ pc = "done"
  /\ returned.kind = "workflowResult"
  /\ ListLen = 2 /\ Len(tasks) = 2
  /\ tasks[1].response # << >> /\ tasks[1].response[1].kind = "failure"
  /\ tasks[2].response # << >> /\ tasks[2].response[1].kind = "completion"
  /\ tasks[1].processCalled /\ tasks[2].processCalled

====
